---- MODULE Spec2Model ----
(***************************************************************************)
(* Model of the gold-dashboard data pipeline (scripts/update-data.js):     *)
(* main() runs updateGoldPrice, updateFedData, updateDollarIndex and       *)
(* updateGeopoliticalEvents one after the other, each writing one JSON     *)
(* file through saveData.                                                  *)
(*                                                                         *)
(* Number representation.  Provider numbers arrive as decimal strings     *)
(* with at most three decimals.  A JavaScript number is modelled as the    *)
(* integer counting its thousandths (2034.56 is 2034560), a product of a   *)
(* weight and a rate as the integer counting its millionths.  The result   *)
(* of x.toFixed(k) is a string; it is modelled as the record               *)
(* [digits |-> k, n |-> m] standing for the decimal numeral of m / 10^k.   *)
(* Floating-point representation error is not modelled: arithmetic is      *)
(* exact decimal arithmetic.                                               *)
(***************************************************************************)
EXTENDS Integers, Sequences, FiniteSets, TLC

\* ------------------------------------------------------------------------
\* Program constants

\* slice(0, 180) / slice(-180): points kept per series
WindowSize == 180
\* events.slice(0, 15)
EventsKept == 15
\* article.title.substring(0, 120)
HeadlineMax == 120
\* delay(2000) between the top-level tasks
TaskDelayMs == 2000
\* delay(1000) inside updateFedData and before each currency-pair request
CallDelayMs == 1000
\* let weightedSum = 100
BaseIndex == 100

\* ------------------------------------------------------------------------
\* Bounds of the model

\* longest series whose contents are enumerated value by value
MaxSmallLen == 2
\* how far beyond the window the long generated series reach
MaxOverWindow == 1
\* longest article text, in words
MaxWords == 2

\* ------------------------------------------------------------------------
\* JavaScript values

Null == [null |-> TRUE]

IsNull(v) == v = Null

\* the FRED missing-data sentinel, the string "."
Dot == [text |-> "."]

\* a numeric string holding n thousandths
Num(n) == [text |-> "number", n |-> n]

months == <<"Jan", "Feb", "Mar", "Apr", "May", "Jun",
            "Jul", "Aug", "Sep", "Oct", "Nov", "Dec">>

pairs == <<"EUR/USD", "USD/JPY", "GBP/USD", "USD/CAD">>

\* faulty variant: the EUR/USD and GBP/USD weights exchanged
weightsExchanged ==
  [p \in {"EUR/USD", "USD/JPY", "GBP/USD", "USD/CAD"} |->
     CASE p = "EUR/USD" -> -119
       [] p = "USD/JPY" -> 136
       [] p = "GBP/USD" -> -576
       [] p = "USD/CAD" -> 91]

\* weights, in thousandths
weights == [p \in {"EUR/USD", "USD/JPY", "GBP/USD", "USD/CAD"} |->
              CASE p = "EUR/USD" -> -576
                [] p = "USD/JPY" -> 136
                [] p = "GBP/USD" -> -119
                [] p = "USD/CAD" -> 91]

\* ------------------------------------------------------------------------
\* Dates.  A provider date string "YYYY-MM-DD" is the record [y, m, d].

\* days since 1970-01-01 of a civil date (what Date.parse computes, in days)
DaysFromCivil(y, m, d) ==
  LET yy  == IF m <= 2 THEN y - 1 ELSE y
      era == yy \div 400
      yoe == yy - era * 400
      mp  == IF m > 2 THEN m - 3 ELSE m + 9
      doy == (153 * mp + 2) \div 5 + d - 1
      doe == yoe * 365 + yoe \div 4 - yoe \div 100 + doy
  IN  era * 146097 + doe - 719468

\* the civil date of a day number (what getFullYear/getMonth/getDate compute)
CivilFromDays(z0) ==
  LET z   == z0 + 719468
      era == z \div 146097
      doe == z - era * 146097
      yoe == (doe - doe \div 1460 + doe \div 36524 - doe \div 146096) \div 365
      doy == doe - (365 * yoe + yoe \div 4 - yoe \div 100)
      mp  == (5 * doy + 2) \div 153
      d   == doy - (153 * mp + 2) \div 5 + 1
      m   == IF mp < 10 THEN mp + 3 ELSE mp - 9
      y   == yoe + era * 400 + (IF m <= 2 THEN 1 ELSE 0)
  IN  [y |-> y, m |-> m, d |-> d]

\* new Date("YYYY-MM-DD"): a date-only string is UTC midnight.  The time
\* value is counted in minutes, not milliseconds.
DateParse(s) == DaysFromCivil(s.y, s.m, s.d) * 1440

\* the local civil date of a time value, in a zone offMin minutes east of UTC
LocalCivil(t, offMin) == CivilFromDays((t + offMin) \div 1440)

\* formatDate(dateString): `${months[getMonth()]} ${getDate()}, ${getFullYear()}`
formatDate(dateString, offMin) ==
  LET date == LocalCivil(DateParse(dateString), offMin)
  IN  [month |-> months[date.m], day |-> date.d, year |-> date.y]

\* ------------------------------------------------------------------------
\* Numbers

\* Math.round(x): the nearest integer, halves towards +infinity
MathRound(x) == ((x + 500) \div 1000) * 1000

\* parseFloat of a numeric string
parseFloat(s) == s.n

\* 10^k
Pow10(k) == CASE k = 0 -> 1 [] k = 1 -> 10 [] k = 2 -> 100 [] k = 3 -> 1000
              [] k = 4 -> 10000 [] k = 5 -> 100000 [] k = 6 -> 1000000

\* x.toFixed(digits) of the number x = n / 10^scale: nearest, halves up in magnitude
toFixed(n, scale, digits) ==
  LET unit == Pow10(scale - digits)
      mag  == IF n < 0 THEN -n ELSE n
      q    == (2 * mag + unit) \div (2 * unit)
  IN  [digits |-> digits, n |-> IF n < 0 THEN -q ELSE q]

\* ------------------------------------------------------------------------
\* Arrays

Min(a, b) == IF a < b THEN a ELSE b

\* a.slice(0, k)
SliceHead(a, k) == SubSeq(a, 1, Min(k, Len(a)))

\* a.slice(-k)
SliceTail(a, k) == SubSeq(a, Len(a) - Min(k, Len(a)) + 1, Len(a))

\* a.reverse()
Reverse(a) == [i \in 1..Len(a) |-> a[Len(a) + 1 - i]]

\* a.filter(keep), keep given as the set of kept positions
RECURSIVE FilterAt(_, _, _)
FilterAt(a, keep, i) ==
  IF i > Len(a) THEN <<>>
  ELSE IF i \in keep THEN <<a[i]>> \o FilterAt(a, keep, i + 1)
  ELSE FilterAt(a, keep, i + 1)

\* ------------------------------------------------------------------------
\* Record sets built by the four tasks

\* faulty variant: the history left newest first (no reverse())
GoldPrimaryDataNewestFirst(values, now, tz) ==
  LET kept == SliceHead(values, WindowSize)
  IN  [lastUpdated  |-> now,
       currentPrice |-> parseFloat(values[1].close),
       source       |-> "Twelve Data API",
       history      |-> [i \in 1..Len(kept) |->
                           [date  |-> formatDate(kept[i].datetime, tz),
                            price |-> MathRound(parseFloat(kept[i].close))]]]

\* updateGoldPrice, primary: the goldData of a Twelve Data body
GoldPrimaryData(values, now, tz) ==
  LET kept == Reverse(SliceHead(values, WindowSize))
  IN  [lastUpdated  |-> now,
       currentPrice |-> parseFloat(values[1].close),
       source       |-> "Twelve Data API",
       history      |-> [i \in 1..Len(kept) |->
                           [date  |-> formatDate(kept[i].datetime, tz),
                            price |-> MathRound(parseFloat(kept[i].close))]]]

\* updateGoldPrice, fallback: the goldData of an Alpha Vantage time series,
\* given as its entries in key order
GoldFallbackData(timeSeries, now, tz) ==
  LET kept    == Reverse(SliceHead(timeSeries, WindowSize))
      history == [i \in 1..Len(kept) |->
                    [date  |-> formatDate(kept[i].datetime, tz),
                     price |-> MathRound(parseFloat(kept[i].close))]]
  IN  [lastUpdated  |-> now,
       source       |-> "Alpha Vantage API (fallback)",
       history      |-> history,
       currentPrice |-> history[Len(history)].price]

\* updateFedData, "Combine data": the rate series is reversed in place once;
\* the real-yield series is reversed in place again by every call of the map
\* callback, so the callback for index idx (0-based) sees it after idx + 1
\* reversals.  Both arguments are the raw (newest-first) observations.
CombineFed(dffObs, ryObs, tz) ==
  LET chron  == Reverse(dffObs)
      ryAt(i) == IF i % 2 = 1 THEN Reverse(ryObs) ELSE ryObs
      mapped == [i \in 1..Len(chron) |->
                   LET obs     == chron[i]
                       present == i <= Len(ryObs)
                   IN  [date      |-> formatDate(obs.date, tz),
                        fedRate   |-> IF obs.value # Dot
                                        THEN toFixed(parseFloat(obs.value), 3, 2)
                                        ELSE Null,
                        realYield |-> IF present /\ ryAt(i)[i].value # Dot
                                        THEN toFixed(parseFloat(ryAt(i)[i].value), 3, 2)
                                        ELSE Null]]
      keep   == {i \in 1..Len(mapped) :
                   ~IsNull(mapped[i].fedRate) /\ ~IsNull(mapped[i].realYield)}
  IN  FilterAt(mapped, keep, 1)

\* updateFedData: the fedData of the combined pairs
FedData(combinedData, now) ==
  [lastUpdated      |-> now,
   source           |-> "Federal Reserve Economic Data (FRED)",
   currentFedRate   |-> combinedData[Len(combinedData)].fedRate,
   currentRealYield |-> combinedData[Len(combinedData)].realYield,
   data             |-> SliceTail(combinedData, WindowSize)]

\* faulty variant: a primary index set that carries the provider's dates as
\* they come
DxyPrimaryDataRawDate(values, now, tz) ==
  LET kept == Reverse(SliceHead(values, WindowSize))
  IN  [lastUpdated |-> now,
       source      |-> "Twelve Data API",
       currentDXY  |-> toFixed(parseFloat(values[1].close), 3, 1),
       data        |-> [i \in 1..Len(kept) |->
                          [date |-> kept[i].datetime,
                           dxy  |-> toFixed(parseFloat(kept[i].close), 3, 1)]]]

\* updateDollarIndex, primary: the dxyData of a Twelve Data body
DxyPrimaryData(values, now, tz) ==
  LET kept == Reverse(SliceHead(values, WindowSize))
  IN  [lastUpdated |-> now,
       source      |-> "Twelve Data API",
       currentDXY  |-> toFixed(parseFloat(values[1].close), 3, 1),
       data        |-> [i \in 1..Len(kept) |->
                          [date |-> formatDate(kept[i].datetime, tz),
                           dxy  |-> toFixed(parseFloat(kept[i].close), 3, 1)]]]

\* Math.min(...Object.values(pairData).map(v => v.length)), pairData non-empty
RECURSIVE MinLength(_, _)
MinLength(pairData, names) ==
  LET p    == CHOOSE q \in names : TRUE
      rest == names \ {p}
  IN  IF rest = {} THEN Len(pairData[p])
      ELSE Min(Len(pairData[p]), MinLength(pairData, rest))

\* weightedSum after the forEach over pairs at position i, in millionths
RECURSIVE WeightedSum(_, _, _)
WeightedSum(pairData, i, k) ==
  IF k = 0 THEN BaseIndex * 1000000
  ELSE WeightedSum(pairData, i, k - 1)
         + weights[pairs[k]] * parseFloat(pairData[pairs[k]][i].close)

\* the dxyProxy array (newest first) of a pairData holding all four pairs
DxyProxy(pairData, tz) ==
  LET length == MinLength(pairData, DOMAIN pairData)
  IN  [i \in 1..length |->
         [date |-> formatDate(pairData[pairs[1]][i].datetime, tz),
          dxy  |-> toFixed(WeightedSum(pairData, i, Len(pairs)), 6, 1)]]

\* updateDollarIndex, fallback: the dxyData of a non-empty dxyProxy
DxyProxyData(dxyProxy, now) ==
  [lastUpdated |-> now,
   source      |-> "Calculated DXY Proxy",
   currentDXY  |-> dxyProxy[1].dxy,
   data        |-> Reverse(dxyProxy)]

\* ------------------------------------------------------------------------
\* Strings of article text: Str(c) for the sequence c of one-character strings

Str(c) == [chars |-> c]

upperCase == <<"A", "B", "C", "D", "E", "F", "G", "H", "I", "J", "K", "L", "M",
               "N", "O", "P", "Q", "R", "S", "T", "U", "V", "W", "X", "Y", "Z">>

lowerCase == <<"a", "b", "c", "d", "e", "f", "g", "h", "i", "j", "k", "l", "m",
               "n", "o", "p", "q", "r", "s", "t", "u", "v", "w", "x", "y", "z">>

\* s.toLowerCase()
toLowerCase(s) ==
  [i \in 1..Len(s) |->
     IF \E k \in 1..Len(upperCase) : upperCase[k] = s[i]
       THEN lowerCase[CHOOSE k \in 1..Len(upperCase) : upperCase[k] = s[i]]
       ELSE s[i]]

\* String(v) in a concatenation: null becomes the text "null"
ToText(v) == IF IsNull(v) THEN <<"n", "u", "l", "l">> ELSE v.chars

\* text.match(/w/) for a literal w: w occurs somewhere in text
Contains(text, w) ==
  \E i \in 1..(Len(text) - Len(w) + 1) : SubSeq(text, i, i + Len(w) - 1) = w

\* text.match(/a|b|.../) for the literal alternatives in ws
MatchAny(text, ws) == \E w \in ws : Contains(text, w)

\* /war|crisis|attack|collapse|crash/
highSeverity ==
  {<<"w", "a", "r">>,
   <<"c", "r", "i", "s", "i", "s">>,
   <<"a", "t", "t", "a", "c", "k">>,
   <<"c", "o", "l", "l", "a", "p", "s", "e">>,
   <<"c", "r", "a", "s", "h">>}

\* /tension|concern|risk|warning|threat/
mediumSeverity ==
  {<<"t", "e", "n", "s", "i", "o", "n">>,
   <<"c", "o", "n", "c", "e", "r", "n">>,
   <<"r", "i", "s", "k">>,
   <<"w", "a", "r", "n", "i", "n", "g">>,
   <<"t", "h", "r", "e", "a", "t">>}

\* /gold (rises|rally|surge|gains|higher)/
positiveDirection ==
  {<<"g", "o", "l", "d", " ", "r", "i", "s", "e", "s">>,
   <<"g", "o", "l", "d", " ", "r", "a", "l", "l", "y">>,
   <<"g", "o", "l", "d", " ", "s", "u", "r", "g", "e">>,
   <<"g", "o", "l", "d", " ", "g", "a", "i", "n", "s">>,
   <<"g", "o", "l", "d", " ", "h", "i", "g", "h", "e", "r">>}

\* /gold (falls|decline|drop|lower)/
negativeDirection ==
  {<<"g", "o", "l", "d", " ", "f", "a", "l", "l", "s">>,
   <<"g", "o", "l", "d", " ", "d", "e", "c", "l", "i", "n", "e">>,
   <<"g", "o", "l", "d", " ", "d", "r", "o", "p">>,
   <<"g", "o", "l", "d", " ", "l", "o", "w", "e", "r">>}

\* faulty variant: the medium-severity pattern tried first
SeverityMediumFirst(text) ==
  IF MatchAny(text, mediumSeverity) THEN "medium"
  ELSE IF MatchAny(text, highSeverity) THEN "high"
  ELSE "low"

\* severity of a lowercased text
Severity(text) ==
  IF MatchAny(text, highSeverity) THEN "high"
  ELSE IF MatchAny(text, mediumSeverity) THEN "medium"
  ELSE "low"

\* impact of a lowercased text with the given severity
Impact(text, severity) ==
  IF MatchAny(text, positiveDirection) THEN "positive"
  ELSE IF MatchAny(text, negativeDirection) THEN "negative"
  ELSE IF severity = "high" \/ severity = "medium" THEN "positive"
  ELSE "neutral"

\* (article.title + ' ' + article.description).toLowerCase()
ArticleText(article) ==
  toLowerCase(ToText(article.title) \o <<" ">> \o ToText(article.description))

\* the callback of data.articles.map
EventOf(article) ==
  LET text     == ArticleText(article)
      severity == Severity(text)
  IN  [date     |-> article.publishedAt.date,
       event    |-> Str(SliceHead(article.title.chars, HeadlineMax)),
       severity |-> severity,
       impact   |-> Impact(text, severity),
       url      |-> article.url]

\* faulty variant: an events file that keeps the last articles of the body
GeoDataKeepingLast(articles, now) ==
  [lastUpdated |-> now,
   source      |-> "NewsAPI",
   events      |-> SliceTail([i \in 1..Len(articles) |-> EventOf(articles[i])],
                             EventsKept)]

\* updateGeopoliticalEvents: the geoData of a NewsAPI body
GeoData(articles, now) ==
  [lastUpdated |-> now,
   source      |-> "NewsAPI",
   events      |-> SliceHead([i \in 1..Len(articles) |-> EventOf(articles[i])],
                             EventsKept)]

\* ------------------------------------------------------------------------
\* Requests, responses, files

Req(provider, symbol) == [provider |-> provider, symbol |-> symbol]

ReqGold         == Req("Twelve Data", "XAU/USD")
ReqGoldFallback == Req("Alpha Vantage", "XAU/USD")
ReqDff          == Req("FRED", "DFF")
ReqRealYield    == Req("FRED", "DFII10")
ReqDxy          == Req("Twelve Data", "DXY")
ReqPair(k)      == Req("Twelve Data", pairs[k])
ReqNews         == Req("NewsAPI", "everything")

Requests ==
  {ReqGold, ReqGoldFallback, ReqDff, ReqRealYield, ReqDxy, ReqNews}
    \cup {ReqPair(k) : k \in 1..Len(pairs)}

\* A response: net = the fetch promise resolved (no transport error);
\* ok = response.ok; json = response.json() resolved; error = the body carries
\* the provider's error field (status 'error', 'Error Message',
\* error_message); hasData = the body carries the provider's data field
\* (values, 'Time Series FX (Daily)', observations, articles); data = it.
Ok(data) ==
  [net |-> TRUE, ok |-> TRUE, json |-> TRUE, error |-> FALSE,
   hasData |-> TRUE, data |-> data]

TransportError == [Ok(<<>>) EXCEPT !.net = FALSE, !.ok = FALSE, !.json = FALSE,
                                   !.hasData = FALSE]

BadJson == [Ok(<<>>) EXCEPT !.json = FALSE, !.hasData = FALSE]

ApiError == [Ok(<<>>) EXCEPT !.error = TRUE, !.hasData = FALSE]

NoDataField == [Ok(<<>>) EXCEPT !.hasData = FALSE]

HttpStatus(r) == [r EXCEPT !.ok = FALSE]

GoldFile  == "gold-price.json"
FedFile   == "fed-policy.json"
DxyFile   == "dollar-index.json"
GeoFile   == "geopolitical-events.json"
FileNames == {GoldFile, FedFile, DxyFile, GeoFile}

\* a file that does not exist, and a file left truncated by a failed write
Absent    == [absent |-> TRUE]
Truncated == [truncated |-> TRUE]

Sources == {"goldPrice", "fedPolicy", "dollarIndex", "geopolitical"}

\* the states of the run orchestrator
Phases == <<"NotStarted", "FetchingPrice", "FetchingPolicy", "FetchingIndex",
            "FetchingEvents", "Summarizing", "Done">>

\* ------------------------------------------------------------------------
\* State

VARIABLES
  pc,          \* where main() is suspended
  run,         \* 1 or 2: which invocation of the script is under way
  resp,        \* the response each request gets (the same in both runs)
  keys,        \* keys[r]: NEWS_API_KEY is set in run r
  writeFault,  \* per file: "none", "EACCES" (open fails), "ENOSPC" (write fails)
  tz,          \* the machine's zone, minutes east of UTC
  clock,       \* milliseconds
  files,       \* the contents of public/data
  before,      \* files as they were when the run started
  results,     \* main's results object
  exitCode,    \* the process exit code
  log,         \* requests issued and delays started in this run, in order
  inflight,    \* requests whose response has not arrived
  saveCalls,   \* per file: calls of saveData in this run
  trace,       \* orchestrator states entered in this run, in order
  pairData,    \* updateDollarIndex's pairData
  pairIdx,     \* position of the for-of loop over pairs
  first,       \* results and files at the end of run 1
  hung,        \* the requests that never get a response or an error
  page,        \* the dashboard: the state of the App component
  loads,       \* the dashboard: the four file fetches of fetchData
  localStorage,\* the browser's localStorage, per key
  storageFull  \* localStorage.setItem throws QuotaExceededError

\* what main() never changes: its environment, and the dashboard
env  == <<resp, keys, writeFault, tz, hung, page, loads, localStorage, storageFull>>

vars == <<pc, run, resp, keys, writeFault, tz, clock, files, before, results,
          exitCode, log, inflight, saveCalls, trace, pairData, pairIdx, first,
          hung, page, loads, localStorage, storageFull>>

\* the orchestrator state a control point belongs to
Phase(p) ==
  CASE p = "NotStarted" -> "NotStarted"
    [] p \in {"gold_primary_wait", "gold_fallback_wait", "delay_after_gold"}
         -> "FetchingPrice"
    [] p \in {"fed_dff_wait", "fed_delay", "fed_realyield_wait", "delay_after_fed"}
         -> "FetchingPolicy"
    [] p \in {"dxy_primary_wait", "pair_delay", "pair_wait", "delay_after_dxy"}
         -> "FetchingIndex"
    [] p \in {"news_wait", "news_skipped"} -> "FetchingEvents"
    [] p = "Summarizing" -> "Summarizing"
    [] p = "Done" -> "Done"

\* ------------------------------------------------------------------------
\* Steps shared by the actions

\* faulty variant: a fetch that gives up after a while, so that every request
\* ends in a response or an error
HangsWithTimeout(req) == FALSE

\* await fetch(...): no timeout and no AbortController, so a request that is
\* never answered never lets its await return
Hangs(req) == req \in hung

\* control moves to p
Goto(p) ==
  /\ pc' = p
  /\ trace' = IF Phase(p) = trace[Len(trace)] THEN trace
              ELSE Append(trace, Phase(p))

RequestEvent(req) ==
  [kind |-> "request", provider |-> req.provider, symbol |-> req.symbol, ms |-> 0]

DelayEvent(ms) ==
  [kind |-> "delay", provider |-> "", symbol |-> "", ms |-> ms]

\* the response of `got` arrives (if any) and the listed events follow
Calls(got, events) ==
  /\ log' = log \o events
  /\ inflight' = (inflight \ got)
       \cup {Req(e.provider, e.symbol) :
               e \in {events[i] : i \in {j \in 1..Len(events) :
                                           events[j].kind = "request"}}}

\* the round trip of a request takes this long
Latency == 100

\* saveData(filename, data): does writeFileSync throw
SaveThrows(filename) == writeFault[filename] # "none"

\* faulty variant: a write that appends the new history to the published one
FilesAfterSaveAppending(filename, data) ==
  [files EXCEPT ![filename] =
     CASE writeFault[filename] = "none" ->
            IF "history" \in DOMAIN data /\ "history" \in DOMAIN @
              THEN [data EXCEPT !.history = files[filename].history \o data.history]
              ELSE data
       [] writeFault[filename] = "EACCES" -> @
       [] writeFault[filename] = "ENOSPC" -> Truncated]

\* saveData(filename, data): the files after the call
FilesAfterSave(filename, data) ==
  [files EXCEPT ![filename] =
     CASE writeFault[filename] = "none"   -> data
       [] writeFault[filename] = "EACCES" -> @
       [] writeFault[filename] = "ENOSPC" -> Truncated]

\* faulty variant: every task writing to the price file
saveDataToOneFile(filename, data) ==
  /\ files' = FilesAfterSave(GoldFile, data)
  /\ saveCalls' = [saveCalls EXCEPT ![GoldFile] = @ + 1]

\* one call of saveData
saveData(filename, data) ==
  /\ files' = FilesAfterSave(filename, data)
  /\ saveCalls' = [saveCalls EXCEPT ![filename] = @ + 1]

NoSave == UNCHANGED <<files, saveCalls>>

\* results.<source> = value
SetResult(source, value) == results' = [results EXCEPT ![source] = value]

\* ------------------------------------------------------------------------
\* What makes each try block throw before its saveData

\* faulty variant: the primary price path without its response.ok check
GoldPrimaryFailsNoStatus(r) ==
  ~r.net \/ ~r.json \/ r.error \/ ~r.hasData \/ Len(r.data) = 0

\* updateGoldPrice, primary: fetch rejects, !response.ok, json() rejects,
\* data.status === 'error', or data.values[0] cannot be read
GoldPrimaryFails(r) ==
  ~r.net \/ ~r.ok \/ ~r.json \/ r.error \/ ~r.hasData \/ Len(r.data) = 0

\* updateGoldPrice, fallback: fetch or json() rejects, 'Error Message',
\* Object.entries(undefined), or history[history.length - 1] undefined
GoldFallbackFails(r) ==
  ~r.net \/ ~r.json \/ r.error \/ ~r.hasData \/ Len(r.data) = 0

\* updateFedData: the first request throws before the delay
DffThrows(r) == ~r.net \/ ~r.json

\* updateFedData after the second response: a rejected fetch or json(),
\* an error_message in either body, a missing observations array, or no
\* complete pair (combinedData[combinedData.length - 1] undefined)
FedFails(r1, r2, tz0) ==
  \/ ~r2.net \/ ~r2.json
  \/ r1.error \/ r2.error
  \/ ~r1.hasData \/ ~r2.hasData
  \/ CombineFed(r1.data, r2.data, tz0) = <<>>

\* updateDollarIndex, primary
DxyPrimaryFails(r) ==
  ~r.net \/ ~r.ok \/ ~r.json \/ r.error \/ ~r.hasData \/ Len(r.data) = 0

\* faulty variant: a pair loop that swallows the rejection of a pair request
\* and goes on with the next pair
PairThrowsNever(r) == FALSE

\* updateDollarIndex, fallback loop: fetch or json() of a pair rejects
PairThrows(r) == ~r.net \/ ~r.json

\* if (json.values)
PairHasValues(r) == r.hasData

\* updateDollarIndex after the loop: a pair is missing from pairData
\* (pairData[pair][i] throws, also when pairData is empty and the length is
\* Infinity), or a pair is empty (dxyProxy[0] undefined)
ProxyFails(pd) ==
  \/ DOMAIN pd # {pairs[k] : k \in 1..Len(pairs)}
  \/ MinLength(pd, DOMAIN pd) = 0

\* an article the map callback can process: publishedAt and title are strings
ArticleFails(a) == IsNull(a.publishedAt) \/ IsNull(a.title)

\* updateGeopoliticalEvents: fetch or json() rejects, data.status === 'error',
\* data.articles missing, or the callback throws on an article
NewsFails(r) ==
  \/ ~r.net \/ ~r.json \/ r.error \/ ~r.hasData
  \/ \E i \in 1..Len(r.data) : ArticleFails(r.data[i])

\* Object.values(results).filter(v => v).length
successCount(res) == Cardinality({s \in Sources : ~IsNull(res[s])})

\* faulty variant: exit 1 as soon as one source failed
ExitCodeOfAnyFailure(res) == IF successCount(res) < Cardinality(Sources) THEN 1 ELSE 0

\* the exit code main ends with
ExitCodeOf(res) == IF successCount(res) = 0 THEN 1 ELSE 0

\* ------------------------------------------------------------------------
\* Actions: one per stretch of main() between two awaits

\* main() is called: results is initialised and updateGoldPrice issues the
\* primary request
mainStart ==
  /\ pc = "NotStarted"
  /\ results' = [s \in Sources |-> Null]
  /\ Calls({}, <<RequestEvent(ReqGold)>>)
  /\ Goto("gold_primary_wait")
  /\ NoSave
  /\ UNCHANGED <<run, env, clock, before, exitCode, pairData, pairIdx, first>>

\* the primary price response arrives
goldPrimaryResponse ==
  /\ pc = "gold_primary_wait"
  /\ ~Hangs(ReqGold)
  /\ clock' = clock + Latency
  /\ LET r        == resp[ReqGold]
         goldData == GoldPrimaryData(r.data, clock', tz)
     IN  IF GoldPrimaryFails(r)
           THEN \* catch: try the fallback
                /\ NoSave
                /\ UNCHANGED results
                /\ Calls({ReqGold}, <<RequestEvent(ReqGoldFallback)>>)
                /\ Goto("gold_fallback_wait")
         ELSE IF SaveThrows(GoldFile)
           THEN \* saveData throws inside the try: the same catch
                /\ saveData(GoldFile, goldData)
                /\ UNCHANGED results
                /\ Calls({ReqGold}, <<RequestEvent(ReqGoldFallback)>>)
                /\ Goto("gold_fallback_wait")
         ELSE   /\ saveData(GoldFile, goldData)
                /\ SetResult("goldPrice", goldData)
                /\ Calls({ReqGold}, <<DelayEvent(TaskDelayMs)>>)
                /\ Goto("delay_after_gold")
  /\ UNCHANGED <<run, env, before, exitCode, pairData, pairIdx, first>>

\* the fallback price response arrives
goldFallbackResponse ==
  /\ pc = "gold_fallback_wait"
  /\ ~Hangs(ReqGoldFallback)
  /\ clock' = clock + Latency
  /\ LET r        == resp[ReqGoldFallback]
         goldData == GoldFallbackData(r.data, clock', tz)
     IN  IF GoldFallbackFails(r)
           THEN /\ NoSave
                /\ SetResult("goldPrice", Null)
         ELSE IF SaveThrows(GoldFile)
           THEN /\ saveData(GoldFile, goldData)
                /\ SetResult("goldPrice", Null)
         ELSE   /\ saveData(GoldFile, goldData)
                /\ SetResult("goldPrice", goldData)
  /\ Calls({ReqGoldFallback}, <<DelayEvent(TaskDelayMs)>>)
  /\ Goto("delay_after_gold")
  /\ UNCHANGED <<run, env, before, exitCode, pairData, pairIdx, first>>

\* delay(2000) after the price task elapses: updateFedData issues the DFF request
delayAfterGold ==
  /\ pc = "delay_after_gold"
  /\ clock' = clock + TaskDelayMs
  /\ Calls({}, <<RequestEvent(ReqDff)>>)
  /\ Goto("fed_dff_wait")
  /\ NoSave
  /\ UNCHANGED <<run, env, before, results, exitCode, pairData, pairIdx, first>>

\* faulty variant: updateFedData without its try/catch; the rejection reaches
\* main().catch, which exits with 1
dffResponseUncaught ==
  /\ pc = "fed_dff_wait"
  /\ ~Hangs(ReqDff)
  /\ clock' = clock + Latency
  /\ IF DffThrows(resp[ReqDff])
       THEN /\ exitCode' = 1
            /\ Calls({ReqDff}, <<>>)
            /\ Goto("Done")
       ELSE /\ UNCHANGED exitCode
            /\ Calls({ReqDff}, <<DelayEvent(CallDelayMs)>>)
            /\ Goto("fed_delay")
  /\ NoSave
  /\ UNCHANGED <<run, env, before, results, pairData, pairIdx, first>>

\* the DFF response arrives
dffResponse ==
  /\ pc = "fed_dff_wait"
  /\ ~Hangs(ReqDff)
  /\ clock' = clock + Latency
  /\ IF DffThrows(resp[ReqDff])
       THEN /\ SetResult("fedPolicy", Null)
            /\ Calls({ReqDff}, <<DelayEvent(TaskDelayMs)>>)
            /\ Goto("delay_after_fed")
       ELSE /\ UNCHANGED results
            /\ Calls({ReqDff}, <<DelayEvent(CallDelayMs)>>)
            /\ Goto("fed_delay")
  /\ NoSave
  /\ UNCHANGED <<run, env, before, exitCode, pairData, pairIdx, first>>

\* delay(1000) inside updateFedData elapses: the DFII10 request is issued
fedDelay ==
  /\ pc = "fed_delay"
  /\ clock' = clock + CallDelayMs
  /\ Calls({}, <<RequestEvent(ReqRealYield)>>)
  /\ Goto("fed_realyield_wait")
  /\ NoSave
  /\ UNCHANGED <<run, env, before, results, exitCode, pairData, pairIdx, first>>

\* the DFII10 response arrives
realYieldResponse ==
  /\ pc = "fed_realyield_wait"
  /\ ~Hangs(ReqRealYield)
  /\ clock' = clock + Latency
  /\ LET r1      == resp[ReqDff]
         r2      == resp[ReqRealYield]
         fedData == FedData(CombineFed(r1.data, r2.data, tz), clock')
     IN  IF FedFails(r1, r2, tz)
           THEN /\ NoSave
                /\ SetResult("fedPolicy", Null)
         ELSE IF SaveThrows(FedFile)
           THEN /\ saveData(FedFile, fedData)
                /\ SetResult("fedPolicy", Null)
         ELSE   /\ saveData(FedFile, fedData)
                /\ SetResult("fedPolicy", fedData)
  /\ Calls({ReqRealYield}, <<DelayEvent(TaskDelayMs)>>)
  /\ Goto("delay_after_fed")
  /\ UNCHANGED <<run, env, before, exitCode, pairData, pairIdx, first>>

\* delay(2000) after the policy task elapses: updateDollarIndex issues the
\* DXY request
delayAfterFed ==
  /\ pc = "delay_after_fed"
  /\ clock' = clock + TaskDelayMs
  /\ Calls({}, <<RequestEvent(ReqDxy)>>)
  /\ Goto("dxy_primary_wait")
  /\ NoSave
  /\ UNCHANGED <<run, env, before, results, exitCode, pairData, pairIdx, first>>

\* const pairData = {}
NoPairs == [p \in {} |-> <<>>]

\* pairData[pair] = values
WithPair(pd, pair, values) ==
  [p \in DOMAIN pd \cup {pair} |-> IF p = pair THEN values ELSE pd[p]]

\* the primary index response arrives
dxyPrimaryResponse ==
  /\ pc = "dxy_primary_wait"
  /\ ~Hangs(ReqDxy)
  /\ clock' = clock + Latency
  /\ LET r       == resp[ReqDxy]
         dxyData == DxyPrimaryData(r.data, clock', tz)
     IN  IF DxyPrimaryFails(r)
           THEN \* catch: the proxy loop starts with its first delay(1000)
                /\ NoSave
                /\ UNCHANGED results
                /\ pairData' = NoPairs
                /\ pairIdx' = 1
                /\ Calls({ReqDxy}, <<DelayEvent(CallDelayMs)>>)
                /\ Goto("pair_delay")
         ELSE IF SaveThrows(DxyFile)
           THEN /\ saveData(DxyFile, dxyData)
                /\ UNCHANGED results
                /\ pairData' = NoPairs
                /\ pairIdx' = 1
                /\ Calls({ReqDxy}, <<DelayEvent(CallDelayMs)>>)
                /\ Goto("pair_delay")
         ELSE   /\ saveData(DxyFile, dxyData)
                /\ SetResult("dollarIndex", dxyData)
                /\ UNCHANGED <<pairData, pairIdx>>
                /\ Calls({ReqDxy}, <<DelayEvent(TaskDelayMs)>>)
                /\ Goto("delay_after_dxy")
  /\ UNCHANGED <<run, env, before, exitCode, first>>

\* faulty variant: the four currency-pair requests issued together, as
\* Promise.all(pairs.map(fetch)) would
pairDelayTogether ==
  /\ pc = "pair_delay"
  /\ clock' = clock + CallDelayMs
  /\ Calls({}, [k \in 1..(Len(pairs) - pairIdx + 1) |->
                  RequestEvent(ReqPair(pairIdx + k - 1))])
  /\ Goto("pair_wait")
  /\ NoSave
  /\ UNCHANGED <<run, env, before, results, exitCode, pairData, pairIdx, first>>

\* delay(1000) before a currency-pair request elapses: the request is issued
pairDelay ==
  /\ pc = "pair_delay"
  /\ clock' = clock + CallDelayMs
  /\ Calls({}, <<RequestEvent(ReqPair(pairIdx))>>)
  /\ Goto("pair_wait")
  /\ NoSave
  /\ UNCHANGED <<run, env, before, results, exitCode, pairData, pairIdx, first>>

\* a currency-pair response arrives
pairResponse ==
  /\ pc = "pair_wait"
  /\ ~Hangs(ReqPair(pairIdx))
  /\ clock' = clock + Latency
  /\ LET r        == resp[ReqPair(pairIdx)]
         pd       == IF PairHasValues(r)
                       THEN WithPair(pairData, pairs[pairIdx], r.data)
                       ELSE pairData
         dxyData  == DxyProxyData(DxyProxy(pd, tz), clock')
     IN  IF PairThrows(r)
           THEN /\ NoSave
                /\ SetResult("dollarIndex", Null)
                /\ UNCHANGED <<pairData, pairIdx>>
                /\ Calls({ReqPair(pairIdx)}, <<DelayEvent(TaskDelayMs)>>)
                /\ Goto("delay_after_dxy")
         ELSE IF pairIdx < Len(pairs)
           THEN \* next iteration: delay(1000)
                /\ NoSave
                /\ UNCHANGED results
                /\ pairData' = pd
                /\ pairIdx' = pairIdx + 1
                /\ Calls({ReqPair(pairIdx)}, <<DelayEvent(CallDelayMs)>>)
                /\ Goto("pair_delay")
         ELSE   \* the loop is over: calculate the weighted proxy
                /\ pairData' = pd
                /\ UNCHANGED pairIdx
                /\ IF ProxyFails(pd)
                     THEN NoSave /\ SetResult("dollarIndex", Null)
                   ELSE IF SaveThrows(DxyFile)
                     THEN saveData(DxyFile, dxyData) /\ SetResult("dollarIndex", Null)
                   ELSE saveData(DxyFile, dxyData) /\ SetResult("dollarIndex", dxyData)
                /\ Calls({ReqPair(pairIdx)}, <<DelayEvent(TaskDelayMs)>>)
                /\ Goto("delay_after_dxy")
  /\ UNCHANGED <<run, env, before, exitCode, first>>

\* faulty variant: the events task without its key check
NewsConfiguredAlways(ks, r) == TRUE

\* if (!NEWS_API_KEY)
NewsConfigured(ks, r) == ks[r]

\* delay(2000) after the index task elapses: updateGeopoliticalEvents returns
\* null at once without a key, and issues the news request with one
delayAfterDxy ==
  /\ pc = "delay_after_dxy"
  /\ clock' = clock + TaskDelayMs
  /\ IF NewsConfigured(keys, run)
       THEN Calls({}, <<RequestEvent(ReqNews)>>) /\ Goto("news_wait")
       ELSE Calls({}, <<>>) /\ Goto("news_skipped")
  /\ NoSave
  /\ UNCHANGED <<run, env, before, results, exitCode, pairData, pairIdx, first>>

\* faulty variant: an unconfigured events task that publishes an empty events file
newsSkippedWritesPlaceholder ==
  /\ pc = "news_skipped"
  /\ SetResult("geopolitical", Null)
  /\ Calls({}, <<>>)
  /\ Goto("Summarizing")
  /\ saveData(GeoFile, GeoData(<<>>, clock))
  /\ UNCHANGED <<run, env, clock, before, exitCode, pairData, pairIdx, first>>

\* main resumes with the null of the unconfigured events task
newsSkipped ==
  /\ pc = "news_skipped"
  /\ SetResult("geopolitical", Null)
  /\ Calls({}, <<>>)
  /\ Goto("Summarizing")
  /\ NoSave
  /\ UNCHANGED <<run, env, clock, before, exitCode, pairData, pairIdx, first>>

\* the news response arrives
newsResponse ==
  /\ pc = "news_wait"
  /\ ~Hangs(ReqNews)
  /\ clock' = clock + Latency
  /\ LET r       == resp[ReqNews]
         geoData == GeoData(r.data, clock')
     IN  IF NewsFails(r)
           THEN NoSave /\ SetResult("geopolitical", Null)
         ELSE IF SaveThrows(GeoFile)
           THEN saveData(GeoFile, geoData) /\ SetResult("geopolitical", Null)
         ELSE saveData(GeoFile, geoData) /\ SetResult("geopolitical", geoData)
  /\ Calls({ReqNews}, <<>>)
  /\ Goto("Summarizing")
  /\ UNCHANGED <<run, env, before, exitCode, pairData, pairIdx, first>>

\* the summary and the exit decision
summary ==
  /\ pc = "Summarizing"
  /\ exitCode' = ExitCodeOf(results)
  /\ Goto("Done")
  /\ NoSave
  /\ UNCHANGED <<run, env, clock, before, results, log, inflight, pairData,
                 pairIdx, first>>

\* six hours
SchedulePeriodMs == 6 * 60 * 60 * 1000

\* the scheduler starts the script again, as a new process
nextRun ==
  /\ pc = "Done"
  /\ run = 1
  /\ run' = 2
  /\ first' = [results |-> results, files |-> files, exitCode |-> exitCode]
  /\ before' = files
  /\ clock' = clock + SchedulePeriodMs
  /\ pc' = "NotStarted"
  /\ trace' = <<"NotStarted">>
  /\ results' = [s \in Sources |-> Null]
  /\ exitCode' = 0
  /\ log' = <<>>
  /\ inflight' = {}
  /\ saveCalls' = [f \in FileNames |-> 0]
  /\ pairData' = NoPairs
  /\ pairIdx' = 1
  /\ UNCHANGED <<env, files>>

Next ==
  \/ mainStart
  \/ goldPrimaryResponse
  \/ goldFallbackResponse
  \/ delayAfterGold
  \/ dffResponse
  \/ fedDelay
  \/ realYieldResponse
  \/ delayAfterFed
  \/ dxyPrimaryResponse
  \/ pairDelay
  \/ pairResponse
  \/ delayAfterDxy
  \/ newsSkipped
  \/ newsResponse
  \/ summary
  \/ nextRun

\* ------------------------------------------------------------------------
\* Inputs: provider responses, credentials, write faults, time zone, old files

\* the newest day of every generated series; a year back crosses 29 Feb 2024
NewestDay == DaysFromCivil(2024, 3, 1)

\* a newest-first daily series of n points, one per day, whose closes take
\* every residue of a quarter around the rounding boundary
DailySeries(n, level, salt) ==
  [i \in 1..n |->
     [datetime |-> CivilFromDays(NewestDay - (i - 1)),
      close    |-> Num(level + ((i * 250 + salt) % 1000))]]

\* a newest-first series with the given closes (thousandths)
SeriesOf(closes) ==
  [i \in 1..Len(closes) |->
     [datetime |-> CivilFromDays(NewestDay - (i - 1)), close |-> Num(closes[i])]]

\* newest-first FRED observations of n days, "." at the positions in dots;
\* the values differ from day to day by more than a cent
Observations(n, dots, level) ==
  [i \in 1..n |->
     [date  |-> CivilFromDays(NewestDay - (i - 1)),
      value |-> IF i \in dots THEN Dot ELSE Num(level + 7 + 13 * (i - 1))]]

\* all sequences over S of length 1..n
RECURSIVE SeqsUpTo(_, _)
SeqsUpTo(S, n) ==
  IF n = 0 THEN {}
  ELSE {<<x>> : x \in S}
         \cup SeqsUpTo(S, n - 1)
         \cup {Append(s, x) : s \in {t \in SeqsUpTo(S, n - 1) : Len(t) = n - 1},
                              x \in S}

Article(title, description) ==
  [title       |-> title,
   description |-> description,
   publishedAt |-> [date |-> CivilFromDays(NewestDay), time |-> "T10:00:00Z"],
   url         |-> "https://example.org/article"]

GoodGold     == Ok(DailySeries(2, 2034000, 60))
GoodFallback == Ok(DailySeries(3, 2031000, 560))
GoodDff      == Ok(Observations(3, {}, 5330))
GoodYield    == Ok(Observations(3, {}, 1870))
GoodDxy      == Ok(DailySeries(2, 104000, 40))
GoodPair(k)  == Ok(DailySeries(2, 1000 * k, 85))
GoodNews     == Ok(<<Article(Str(<<"G", "o", "l", "d">>), Null)>>)

\* the responses of one run, request by request
Responses(gold, fallback, dff, yield, dxy, prs, news) ==
  [q \in Requests |->
     CASE q = ReqGold         -> gold
       [] q = ReqGoldFallback -> fallback
       [] q = ReqDff          -> dff
       [] q = ReqRealYield    -> yield
       [] q = ReqDxy          -> dxy
       [] q = ReqNews         -> news
       [] OTHER -> prs[CHOOSE k \in 1..Len(pairs) : q = ReqPair(k)]]

AllPairs(r) == [k \in 1..Len(pairs) |-> r]

GoodPairs == [k \in 1..Len(pairs) |-> GoodPair(k)]

AllGood ==
  Responses(GoodGold, GoodFallback, GoodDff, GoodYield, GoodDxy, GoodPairs, GoodNews)

AllDown ==
  Responses(TransportError, TransportError, TransportError, TransportError,
            TransportError, AllPairs(TransportError), TransportError)

\* r with the responses of the requests in qs replaced by those of s
Override(r, qs, s) == [q \in Requests |-> IF q \in qs THEN s[q] ELSE r[q]]

NoFault == [f \in FileNames |-> "none"]

\* what the previous run left in public/data
StaleFiles == [f \in FileNames |-> [lastUpdated |-> 0, source |-> "previous run"]]
NoFiles    == [f \in FileNames |-> Absent]

\* the keys of localStorage the dashboard uses
StorageKeys == {"centralBankData", "manualEvents"}

\* localStorage.getItem(key) of a key that is not set
NoItem == Null

\* a localStorage without the dashboard's keys
NoStorage == [k \in StorageKeys |-> NoItem]

\* useState(...): the state of App before its effects run
InitialPage ==
  [mounted         |-> FALSE,
   goldData        |-> Null,
   fedData         |-> Null,
   dxyData         |-> Null,
   geoEvents       |-> Null,
   lastUpdated     |-> Null,
   loading         |-> TRUE,
   centralBankData |-> <<>>,
   manualEvents    |-> <<>>]

\* a fetch not yet issued, issued, and settled
Idle           == [state |-> "idle", value |-> Null]
Pending        == [state |-> "pending", value |-> Null]
Fulfilled(v)   == [state |-> "fulfilled", value |-> v]
Rejected       == [state |-> "rejected", value |-> Null]

NoLoads == [f \in FileNames |-> Idle]

Environment(r, ks, wf, zone, fs) ==
  [resp |-> r, keys |-> ks, writeFault |-> wf, tz |-> zone, files |-> fs,
   hung |-> {}, storage |-> NoStorage, storageFull |-> FALSE]

KeyChoices == {<<a, b>> : a \in BOOLEAN, b \in BOOLEAN}

\* the requests of each source
RequestsOf(source) ==
  CASE source = "goldPrice"    -> {ReqGold, ReqGoldFallback}
    [] source = "fedPolicy"    -> {ReqDff, ReqRealYield}
    [] source = "dollarIndex"  -> {ReqDxy} \cup {ReqPair(k) : k \in 1..Len(pairs)}
    [] source = "geopolitical" -> {ReqNews}

\* every source either fully served or fully unreachable, the price and the
\* index source also with only their primary unreachable
CoarseResponses ==
  {Override(Override(r, {ReqGold}, g), {ReqDxy}, d) :
     r \in {[q \in Requests |->
               IF \E s \in up : q \in RequestsOf(s) THEN AllGood[q] ELSE AllDown[q]] :
              up \in SUBSET Sources},
     g \in {AllGood, AllDown}, d \in {AllGood, AllDown}}

\* a few whole environments that take every path of main() at least once
BaseEnvironments ==
  {Environment(r, ks, NoFault, 0, StaleFiles) :
     r \in {AllGood, AllDown, Override(AllGood, {ReqGold, ReqDxy}, AllDown)},
     ks \in {<<TRUE, TRUE>>, <<FALSE, TRUE>>}}

\* the ways a request can go wrong, `good` being its good response
FailureKinds(good) ==
  {TransportError, BadJson, ApiError, NoDataField, Ok(<<>>),
   HttpStatus(good), HttpStatus(ApiError)}

\* one request going wrong in each way, the others good, down, or with the
\* primaries down
SingleFailures ==
  UNION {{[q \in Requests |-> IF q = bad THEN kind ELSE r[q]] :
            kind \in FailureKinds(AllGood[bad]),
            r \in {AllGood, AllDown, Override(AllGood, {ReqGold, ReqDxy}, AllDown)}} :
           bad \in Requests}

\* policy series without a complete pair or of different lengths; articles
\* without a title or a publication time
OddBodies ==
  {Override(AllGood, {ReqDff, ReqRealYield},
            Responses(GoodGold, GoodFallback, Ok(Observations(n1, d1, 5330)),
                      Ok(Observations(n2, d2, 1870)), GoodDxy, GoodPairs, GoodNews)) :
     n1 \in {2, 3}, n2 \in {2, 3}, d1 \in {{}, {1, 2, 3}}, d2 \in {{}, {1, 2, 3}}}
  \cup
  {Override(AllGood, {ReqNews},
            Responses(GoodGold, GoodFallback, GoodDff, GoodYield, GoodDxy, GoodPairs,
                      Ok(<<a>>))) :
     a \in {[Article(Str(<<"G">>), Null) EXCEPT !.title = Null],
            [Article(Str(<<"G">>), Null) EXCEPT !.publishedAt = Null]}}

\* one file, or every file, that cannot be written
WriteFaults ==
  {[f \in FileNames |-> IF f \in bad THEN fault ELSE "none"] :
     bad \in {{f} : f \in FileNames} \cup {FileNames},
     fault \in {"EACCES", "ENOSPC"}}

\* the environments in which the outcomes of a run are studied
OutcomeEnvironments ==
  BaseEnvironments
  \cup {Environment(r, ks, NoFault, 0, StaleFiles) :
          r \in CoarseResponses, ks \in KeyChoices}
  \cup {Environment(r, <<TRUE, TRUE>>, NoFault, 0, fs) :
          r \in SingleFailures \cup OddBodies, fs \in {StaleFiles, NoFiles}}
  \cup {Environment(r, <<TRUE, TRUE>>, wf, 0, fs) :
          r \in {AllGood, Override(AllGood, {ReqGold, ReqDxy}, AllDown)},
          wf \in WriteFaults, fs \in {StaleFiles, NoFiles}}

\* ------------------------------------------------------------------------
\* Specifications

\* the state before the first run, in one of the environments of E
InitIn(E) ==
  /\ \E e \in E :
       /\ resp = e.resp
       /\ keys = e.keys
       /\ writeFault = e.writeFault
       /\ tz = e.tz
       /\ hung = e.hung
       /\ localStorage = e.storage
       /\ storageFull = e.storageFull
       /\ files = e.files
       /\ before = e.files
  /\ pc = "NotStarted"
  /\ run = 1
  /\ clock = 0
  /\ results = [s \in Sources |-> Null]
  /\ exitCode = 0
  /\ log = <<>>
  /\ inflight = {}
  /\ saveCalls = [f \in FileNames |-> 0]
  /\ trace = <<"NotStarted">>
  /\ pairData = NoPairs
  /\ pairIdx = 1
  /\ first = Null
  /\ page = InitialPage
  /\ loads = NoLoads

Init == InitIn(OutcomeEnvironments)

Spec == Init /\ [][Next]_vars

\* ------------------------------------------------------------------------
\* Claims about the outcome of a run

\* the file each source is published in
FileOf(source) ==
  CASE source = "goldPrice"    -> GoldFile
    [] source = "fedPolicy"    -> FedFile
    [] source = "dollarIndex"  -> DxyFile
    [] source = "geopolitical" -> GeoFile

\* the task of `source` has returned to main
Returned(source) ==
  CASE source = "goldPrice"    -> Phase(pc) \notin {"NotStarted", "FetchingPrice"}
                                    \/ pc = "delay_after_gold"
    [] source = "fedPolicy"    -> Phase(pc) \in {"FetchingIndex", "FetchingEvents",
                                                 "Summarizing", "Done"}
                                    \/ pc = "delay_after_fed"
    [] source = "dollarIndex"  -> Phase(pc) \in {"FetchingEvents", "Summarizing", "Done"}
                                    \/ pc = "delay_after_dxy"
    [] source = "geopolitical" -> Phase(pc) \in {"Summarizing", "Done"}

\* a record without its lastUpdated field
WithoutTime(v) ==
  IF "lastUpdated" \in DOMAIN v THEN [v EXCEPT !.lastUpdated = 0] ELSE v

\* C1: the process exits with code 1 exactly when all four source tasks ended
\* without a record set, and with code 0 when at least one produced one; no
\* exit code other than 0 is set before the summary.
C1_ExitCode ==
  /\ pc = "Done" =>
       /\ exitCode = 1 <=> \A s \in Sources : IsNull(results[s])
       /\ exitCode = 0 <=> \E s \in Sources : ~IsNull(results[s])
  /\ pc # "Done" => exitCode = 0

C1_Witness ==
  /\ pc = "Done"
  /\ exitCode = 1
  /\ \A s \in Sources : IsNull(results[s])
  /\ Len(log) > 1

\* C2: the orchestrator states are entered in the fixed order, whatever the
\* requests and writes did, and a run that is over has entered every state.
C2_StateOrder ==
  /\ Len(trace) <= Len(Phases)
  /\ trace = SubSeq(Phases, 1, Len(trace))
  /\ trace[Len(trace)] = Phase(pc)
  /\ pc = "Done" => trace = Phases

C2_Witness ==
  /\ pc = "Done"
  /\ trace = Phases
  /\ GoldPrimaryFails(resp[ReqGold])
  /\ IsNull(results["fedPolicy"])
  /\ writeFault[DxyFile] # "none"

\* C3: when the primary price request fails (transport error, HTTP status,
\* error status, unparsable body, no or empty values), the price record set
\* returned and the one written in this run carry the fallback's label; the
\* primary's label appears only when the primary request succeeded.
C3_FallbackLabel ==
  LET r      == resp[ReqGold]
      failed == ~r.net \/ ~r.ok \/ ~r.json \/ r.error \/ ~r.hasData \/ r.data = <<>>
      rec    == results["goldPrice"]
      file   == files[GoldFile]
  IN  /\ (failed /\ ~IsNull(rec)) => rec.source = "Alpha Vantage API (fallback)"
      /\ (failed /\ saveCalls[GoldFile] > 0 /\ "source" \in DOMAIN file
            /\ file # before[GoldFile])
           => file.source = "Alpha Vantage API (fallback)"
      /\ (~IsNull(rec) /\ rec.source = "Twelve Data API") => ~failed

C3_Witness ==
  /\ ~resp[ReqGold].ok
  /\ resp[ReqGold].hasData
  /\ pc = "delay_after_gold"
  /\ ~IsNull(results["goldPrice"])
  /\ files[GoldFile] = results["goldPrice"]
  /\ files[GoldFile].source = "Alpha Vantage API (fallback)"

\* C4: a source whose task returned no record set because its providers
\* failed or because the news key is missing (its file being writable) has
\* had no saveData call in the run, and its file is as it was before the run.
C4_FailureKeepsFile ==
  \A s \in Sources :
    (Returned(s) /\ IsNull(results[s]) /\ writeFault[FileOf(s)] = "none")
      => /\ saveCalls[FileOf(s)] = 0
         /\ files[FileOf(s)] = before[FileOf(s)]

C4_Witness ==
  /\ pc = "Done"
  /\ run = 2
  /\ ~keys[2]
  /\ IsNull(results["geopolitical"])
  /\ IsNull(results["dollarIndex"])
  /\ ~IsNull(results["goldPrice"])
  /\ files[DxyFile] = before[DxyFile]
  /\ files[GeoFile] = before[GeoFile]
  /\ "events" \in DOMAIN files[GeoFile]

\* C9: two runs with the same responses, the same write faults and the same
\* credentials end with the same per-source outcomes, the same exit code and
\* the same files, lastUpdated aside.
C9_Idempotent ==
  (run = 2 /\ pc = "Done" /\ keys[1] = keys[2]) =>
    /\ \A s \in Sources :
         WithoutTime(results[s]) = WithoutTime(first.results[s])
    /\ \A f \in FileNames : WithoutTime(files[f]) = WithoutTime(first.files[f])
    /\ exitCode = first.exitCode

C9_Witness ==
  /\ run = 2
  /\ pc = "Done"
  /\ keys[1] = keys[2]
  /\ \A s \in Sources \ {"fedPolicy"} : ~IsNull(results[s])
  /\ IsNull(results["fedPolicy"])
  /\ results["goldPrice"].lastUpdated # first.results["goldPrice"].lastUpdated
  /\ results["goldPrice"].source = "Alpha Vantage API (fallback)"

\* C10: without a news key the events task issues no request, calls saveData
\* for no file and returns no record set; the other three tasks issue the
\* same requests and end with the same results and files as in a run with
\* the key; and the run exits with 0 when another source succeeded.
C10_NoNewsKey ==
  /\ (~keys[run] /\ Returned("geopolitical")) =>
       /\ \A i \in 1..Len(log) : log[i].provider # "NewsAPI"
       /\ saveCalls[GeoFile] = 0
       /\ files[GeoFile] = before[GeoFile]
       /\ IsNull(results["geopolitical"])
  /\ (~keys[run] /\ pc = "Done"
        /\ \E s \in Sources \ {"geopolitical"} : ~IsNull(results[s]))
       => exitCode = 0
  /\ (run = 2 /\ pc = "Done" /\ keys[1] # keys[2]) =>
       /\ \A s \in Sources \ {"geopolitical"} :
            /\ WithoutTime(results[s]) = WithoutTime(first.results[s])
            /\ WithoutTime(files[FileOf(s)]) = WithoutTime(first.files[FileOf(s)])
       /\ LET other == {i \in 1..Len(log) : log[i].provider # "NewsAPI"}
          IN  /\ Cardinality(other) = Len(log) - (IF keys[2] THEN 1 ELSE 0)
              /\ other = 1..Cardinality(other)

C10_Witness ==
  /\ run = 2
  /\ pc = "Done"
  /\ keys[1]
  /\ ~keys[2]
  /\ ~IsNull(first.results["geopolitical"])
  /\ IsNull(results["geopolitical"])
  /\ IsNull(results["goldPrice"])
  /\ ~IsNull(results["dollarIndex"])
  /\ exitCode = 0

\* ------------------------------------------------------------------------
\* Inputs and specifications for the claims about the record sets

\* outputsize=365: the most points a Twelve Data daily series holds
OutputSize == 365

\* lengths around the window, and the longest
LongLengths ==
  {WindowSize - 1, WindowSize, OutputSize}
    \cup {WindowSize + k : k \in 1..MaxOverWindow}

\* closes (thousandths) on both sides of the rounding boundary
SmallCloses == {0, 499, 500, 2034560}

\* AllGood with the response of request q replaced by r
With(q, r) == [p \in Requests |-> IF p = q THEN r ELSE AllGood[p]]

\* primary price bodies: every short series over SmallCloses and long
\* generated ones, in three zones
PriceEnvironments ==
  BaseEnvironments
  \cup {Environment(With(ReqGold, Ok(SeriesOf(c))), <<TRUE, TRUE>>, NoFault, zone,
                    StaleFiles) :
          c \in SeqsUpTo(SmallCloses, MaxSmallLen), zone \in {0, -300, 330}}
  \cup {Environment(With(ReqGold, Ok(DailySeries(n, 2034000, salt))), <<TRUE, TRUE>>,
                    NoFault, zone, StaleFiles) :
          n \in LongLengths, salt \in {0, 60}, zone \in {0, -300, 330}}

InitPrice == InitIn(PriceEnvironments)

SpecPrice == InitPrice /\ [][Next]_vars

\* policy bodies: two series of n observations with "." at any positions of
\* the first and at the same or at no positions of the second
FedEnvironments ==
  BaseEnvironments
  \cup UNION {{Environment(
                 Override(AllGood, {ReqDff, ReqRealYield},
                          Responses(GoodGold, GoodFallback,
                                    Ok(Observations(n, d1, 5330)),
                                    Ok(Observations(n, IF same THEN d1 ELSE {}, 1870)),
                                    GoodDxy, GoodPairs, GoodNews)),
                 <<TRUE, TRUE>>, NoFault, 0, StaleFiles) :
                 d1 \in SUBSET (1..n), same \in BOOLEAN} :
              n \in 1..(MaxSmallLen + 2)}

InitFed == InitIn(FedEnvironments)

SpecFed == InitFed /\ [][Next]_vars

\* a level (thousandths) for each currency pair
PairLevel(k) ==
  CASE k = 1 -> 1085 [] k = 2 -> 150123 [] k = 3 -> 1265 [] k = 4 -> 1352

\* pair bodies behind a failed DXY request: every combination of short
\* lengths, and four series at and around the window
ProxyEnvironments ==
  BaseEnvironments
  \cup {Environment(
          Override(AllGood, {ReqDxy} \cup {ReqPair(k) : k \in 1..Len(pairs)},
                   Responses(GoodGold, GoodFallback, GoodDff, GoodYield, ApiError,
                             [k \in 1..Len(pairs) |->
                                Ok(DailySeries(len[k], PairLevel(k), salt))],
                             GoodNews)),
          <<TRUE, TRUE>>, NoFault, 0, StaleFiles) :
          len \in [1..Len(pairs) -> 1..MaxSmallLen]
                    \cup {[k \in 1..Len(pairs) |-> n] : n \in LongLengths}
                    \cup {[k \in 1..Len(pairs) |-> IF k = j THEN WindowSize ELSE OutputSize] :
                            j \in 1..Len(pairs)},
          salt \in {0, 85}}

InitProxy == InitIn(ProxyEnvironments)

SpecProxy == InitProxy /\ [][Next]_vars

\* the words article texts are built from
Vocabulary ==
  {<<"W", "a", "r">>,
   <<"w", "a", "r", "n", "i", "n", "g">>,
   <<"t", "e", "n", "s", "i", "o", "n">>,
   <<"g", "o", "l", "d">>,
   <<"r", "i", "s", "e", "s">>,
   <<"f", "a", "l", "l", "s">>,
   <<"c", "a", "l", "m">>}

\* three whole headlines
HeadlineWar ==
  <<"W", "a", "r", " ", "b", "r", "e", "a", "k", "s", " ", "o", "u", "t",
    ",", " ", "g", "o", "l", "d", " ", "r", "i", "s", "e", "s">>

HeadlineTension ==
  <<"M", "i", "n", "o", "r", " ", "t", "e", "n", "s", "i", "o", "n", " ",
    "r", "e", "p", "o", "r", "t", "e", "d">>

HeadlineCalm ==
  <<"M", "a", "r", "k", "e", "t", "s", " ", "c", "a", "l", "m", ",", " ",
    "g", "o", "l", "d", " ", "f", "a", "l", "l", "s", " ", "s", "l", "i",
    "g", "h", "t", "l", "y">>

\* words joined by single spaces
RECURSIVE Join(_)
Join(ws) ==
  IF Len(ws) = 1 THEN ws[1] ELSE ws[1] \o <<" ">> \o Join(Tail(ws))

\* pageSize=20 of the news request
PageSize == 20

\* a title for the i-th article of a long body: its letters depend on i, its
\* length lies around the headline bound
LongTitle(i) ==
  [j \in 1..(HeadlineMax - 2 + (i % 4) + (IF i % 5 = 0 THEN 10 ELSE 0)) |->
     lowerCase[((i + j) % Len(lowerCase)) + 1]]

\* bodies with as many articles as are kept, as a page holds, and one less
\* or more
LongNewsBodies ==
  {[i \in 1..n |-> Article(Str(LongTitle(i)), Null)] :
     n \in {EventsKept - 1, EventsKept, EventsKept + 1, PageSize, PageSize + 1}}

\* one article per body: the first word as title and the rest as description
\* (no description for a single word), or a whole headline without
\* description; and the long bodies
NewsEnvironments ==
  BaseEnvironments
  \cup {Environment(With(ReqNews, Ok(<<a>>)), <<TRUE, TRUE>>, NoFault, 0, StaleFiles) :
          a \in {Article(Str(ws[1]),
                         IF Len(ws) = 1 THEN Null ELSE Str(Join(Tail(ws)))) :
                   ws \in SeqsUpTo(Vocabulary, MaxWords)}
                \cup {Article(Str(h), Null) :
                        h \in {HeadlineWar, HeadlineTension, HeadlineCalm}}}
  \cup {Environment(With(ReqNews, Ok(body)), <<TRUE, TRUE>>, NoFault, 0, StaleFiles) :
          body \in LongNewsBodies}

InitNews == InitIn(NewsEnvironments)

SpecNews == InitNews /\ [][Next]_vars

\* ------------------------------------------------------------------------
\* Claims about the record sets

\* a response whose body was read and carries data and no error
Served(r) == r.net /\ r.ok /\ r.json /\ ~r.error /\ r.hasData

\* the number of the month with the given abbreviation
MonthNumber(name) == CHOOSE k \in 1..Len(months) : months[k] = name

\* a formatted date as a number that orders dates
DateKey(fd) == fd.year * 10000 + MonthNumber(fd.month) * 100 + fd.day

\* |a - b|
Distance(a, b) == IF a < b THEN b - a ELSE a - b

\* C5: for two policy series of equal length with "." at the same raw
\* positions, the pairs published are those of exactly the positions without
\* ".", in chronological order (for series no longer than the window, where
\* the published data are all the pairs; no pair at all fails the task).
C5_SentinelPositions ==
  LET r1       == resp[ReqDff]
      r2       == resp[ReqRealYield]
      n        == Len(r1.data)
      chron    == Reverse(r1.data)
      complete == {i \in 1..n : chron[i].value # Dot}
      expected == FilterAt([i \in 1..n |-> formatDate(chron[i].date, tz)], complete, 1)
      rec      == results["fedPolicy"]
  IN  (/\ Returned("fedPolicy")
       /\ Served(r1) /\ Served(r2)
       /\ writeFault[FedFile] = "none"
       /\ Len(r2.data) = n
       /\ n <= WindowSize
       /\ \A i \in 1..n : (r1.data[i].value = Dot) <=> (r2.data[i].value = Dot))
      => IF complete = {} THEN IsNull(rec)
         ELSE /\ ~IsNull(rec)
              /\ [i \in 1..Len(rec.data) |-> rec.data[i].date] = expected

\* C6 as stated: the proxy series is as long as the shortest pair series and
\* the value at each aligned position is exactly 100 plus the weighted sum of
\* the four closes at that position.
C6_ExactSum ==
  LET rec    == results["dollarIndex"]
      series == [k \in 1..Len(pairs) |-> resp[ReqPair(k)].data]
      length == CHOOSE m \in {Len(series[k]) : k \in 1..Len(pairs)} :
                  \A k \in 1..Len(pairs) : m <= Len(series[k])
      sum(i) == 100000000 - 576 * series[1][i].close.n + 136 * series[2][i].close.n
                  - 119 * series[3][i].close.n + 91 * series[4][i].close.n
  IN  (Returned("dollarIndex") /\ ~IsNull(rec) /\ rec.source = "Calculated DXY Proxy")
      => /\ Len(rec.data) = length
         /\ \A j \in 1..length :
              rec.data[j].dxy.n * 100000 = sum(length + 1 - j)

\* C6 as amended: the proxy series is as long as the shortest pair series
\* (180 for four series of 180), and the value at each aligned position is
\* 100 plus the weighted sum of the four closes at that position rounded to
\* one decimal place, dated by the first pair's point, oldest position first.
C6_RoundedSum ==
  LET rec    == results["dollarIndex"]
      series == [k \in 1..Len(pairs) |-> resp[ReqPair(k)].data]
      length == CHOOSE m \in {Len(series[k]) : k \in 1..Len(pairs)} :
                  \A k \in 1..Len(pairs) : m <= Len(series[k])
      sum(i) == 100000000 - 576 * series[1][i].close.n + 136 * series[2][i].close.n
                  - 119 * series[3][i].close.n + 91 * series[4][i].close.n
  IN  (Returned("dollarIndex") /\ ~IsNull(rec) /\ rec.source = "Calculated DXY Proxy")
      => /\ Len(rec.data) = length
         /\ (\A k \in 1..Len(pairs) : Len(series[k]) = WindowSize)
              => Len(rec.data) = WindowSize
         /\ \A j \in 1..length :
              LET i == length + 1 - j
              IN  /\ rec.data[j].dxy.digits = 1
                  /\ 2 * Distance(rec.data[j].dxy.n * 100000, sum(i)) <= 100000
                  /\ rec.data[j].date = formatDate(series[1][i].datetime, tz)
         /\ rec.currentDXY = rec.data[length].dxy

C6_Witness ==
  /\ pc = "delay_after_dxy"
  /\ ~IsNull(results["dollarIndex"])
  /\ results["dollarIndex"].source = "Calculated DXY Proxy"
  /\ Len(results["dollarIndex"].data) = WindowSize
  /\ \A k \in 1..Len(pairs) : Len(resp[ReqPair(k)].data) = WindowSize
  /\ files[DxyFile] = results["dollarIndex"]

\* C7: for a primary price body of n newest-first daily points with distinct
\* dates and non-negative closes, the published history holds the min(n, 180)
\* newest points, oldest first, with strictly increasing dates and every
\* price the close rounded to a non-negative integer.
C7_PriceHistory ==
  LET rec    == results["goldPrice"]
      values == resp[ReqGold].data
      k      == IF Len(values) < WindowSize THEN Len(values) ELSE WindowSize
  IN  (Returned("goldPrice") /\ ~IsNull(rec) /\ rec.source = "Twelve Data API")
      => /\ Len(rec.history) = k
         /\ Len(rec.history) <= WindowSize
         /\ \A j \in 1..k :
              LET point == rec.history[j]
                  raw   == values[k + 1 - j]
              IN  /\ point.price >= 0
                  /\ point.price % 1000 = 0
                  /\ 2 * Distance(point.price, raw.close.n) <= 1000
                  /\ DateKey(point.date) \in
                       {DateKey(formatDate(raw.datetime, 0)),
                        DateKey(formatDate(CivilFromDays(
                          DaysFromCivil(raw.datetime.y, raw.datetime.m,
                                        raw.datetime.d) - 1), 0))}
                  /\ tz >= 0 =>
                       /\ point.date.year = raw.datetime.y
                       /\ point.date.month = months[raw.datetime.m]
                       /\ point.date.day = raw.datetime.d
         /\ \A j \in 1..(k - 1) :
              DateKey(rec.history[j].date) < DateKey(rec.history[j + 1].date)

C7_Witness ==
  /\ pc = "delay_after_gold"
  /\ ~IsNull(results["goldPrice"])
  /\ results["goldPrice"].source = "Twelve Data API"
  /\ Len(resp[ReqGold].data) = OutputSize
  /\ Len(results["goldPrice"].history) = WindowSize
  /\ tz < 0
  /\ files[GoldFile] = results["goldPrice"]

RequestsTo(provider) ==
  {i \in 1..Len(log) : log[i].kind = "request" /\ log[i].provider = provider}

\* C11: a run issues at most 2 requests to Twelve Data (one for the price,
\* one for the index), and a request to Alpha Vantage only when the Twelve
\* Data price request of that run failed.
C11_ProviderQuota ==
  /\ Cardinality(RequestsTo("Twelve Data")) <= 2
  /\ RequestsTo("Alpha Vantage") # {} => GoldPrimaryFails(resp[ReqGold])

\* the request whose response the code is awaiting at pc
Awaited ==
  CASE pc = "gold_primary_wait"  -> {ReqGold}
    [] pc = "gold_fallback_wait" -> {ReqGoldFallback}
    [] pc = "fed_dff_wait"       -> {ReqDff}
    [] pc = "fed_realyield_wait" -> {ReqRealYield}
    [] pc = "dxy_primary_wait"   -> {ReqDxy}
    [] pc = "pair_wait"          -> {ReqPair(pairIdx)}
    [] pc = "news_wait"          -> {ReqNews}
    [] OTHER                     -> {}

\* the task a request belongs to
TaskOf(req) ==
  CASE req \in {ReqGold, ReqGoldFallback} -> "FetchingPrice"
    [] req \in {ReqDff, ReqRealYield}     -> "FetchingPolicy"
    [] req = ReqNews                      -> "FetchingEvents"
    [] OTHER                              -> "FetchingIndex"

\* C12: at every point of a run at most one request is in flight; it is the
\* one request the running task awaits, so no request of one task is open
\* during a request or a wait of another, and while a wait runs every
\* earlier request has been answered or has failed.
C12_OneInFlight ==
  /\ Cardinality(inflight) <= 1
  /\ inflight = Awaited
  /\ \A q \in inflight : TaskOf(q) = Phase(pc)

\* the last currency-pair request is the only one in flight
C12_Witness ==
  /\ pc = "pair_wait"
  /\ pairIdx = Len(pairs)
  /\ inflight = {ReqPair(Len(pairs))}
  /\ Cardinality(RequestsTo("Twelve Data")) = 6

\* the request logged at position i
RequestAt(i) == Req(log[i].provider, log[i].symbol)

\* positions i < j of the log that hold two consecutive requests
ConsecutiveRequests ==
  {p \in (1..Len(log)) \X (1..Len(log)) :
     /\ p[1] < p[2]
     /\ log[p[1]].kind = "request"
     /\ log[p[2]].kind = "request"
     /\ \A k \in (p[1] + 1)..(p[2] - 1) : log[k].kind # "request"}

\* C13: between any two consecutive requests of a run a wait is made:
\* 2000 ms when the two belong to different tasks, 1000 ms before a
\* follow-up request of the same task (the fallback price request and the
\* currency-pair requests included).
C13_RateGate ==
  \A p \in ConsecutiveRequests :
    \E k \in (p[1] + 1)..(p[2] - 1) :
      /\ log[k].kind = "delay"
      /\ log[k].ms = IF TaskOf(RequestAt(p[1])) = TaskOf(RequestAt(p[2]))
                       THEN CallDelayMs ELSE TaskDelayMs

\* ------------------------------------------------------------------------
\* Claims about the policy pairs

\* the chronological position of an observation series that carries the
\* published date `date` (0 when none does)
ChronIndex(obs, date) ==
  LET chron == Reverse(obs)
      hit   == {i \in 1..Len(chron) : formatDate(chron[i].date, tz) = date}
  IN  IF hit = {} THEN 0 ELSE CHOOSE i \in hit : TRUE

\* C14: each published policy pair combines the rate observation and the
\* real-yield observation of the same chronological index of their series,
\* at every index.
C14_SameIndex ==
  LET r1  == resp[ReqDff]
      r2  == resp[ReqRealYield]
      rec == results["fedPolicy"]
  IN  (Returned("fedPolicy") /\ ~IsNull(rec)) =>
        \A k \in 1..Len(rec.data) :
          LET i == ChronIndex(r1.data, rec.data[k].date)
          IN  /\ i # 0
              /\ i <= Len(r2.data)
              /\ rec.data[k].fedRate
                   = toFixed(parseFloat(Reverse(r1.data)[i].value), 3, 2)
              /\ Reverse(r2.data)[i].value # Dot
              /\ rec.data[k].realYield
                   = toFixed(parseFloat(Reverse(r2.data)[i].value), 3, 2)

\* ------------------------------------------------------------------------
\* Claims about the index proxy

\* pair k returned no data: transport error, unreadable body, no values
\* field, or an empty values list
PairNoData(k) ==
  LET r == resp[ReqPair(k)]
  IN  ~r.net \/ ~r.json \/ ~r.hasData \/ Len(r.data) = 0

\* the catch block of updateDollarIndex has been entered in this run
ProxyTried == \E i \in 1..Len(log) : log[i] = RequestEvent(ReqPair(1))

\* calls of saveData made by the proxy path in this run
ProxySaves ==
  saveCalls[DxyFile] - IF DxyPrimaryFails(resp[ReqDxy]) THEN 0 ELSE 1

\* the requests logged after the primary index request, the news request
\* left out
RequestsAfterDxy ==
  LET d == CHOOSE i \in 1..Len(log) : log[i] = RequestEvent(ReqDxy)
      IsPairRequest(e) == e.kind = "request" /\ e # RequestEvent(ReqNews)
  IN  SelectSeq(SubSeq(log, d + 1, Len(log)), IsPairRequest)

\* the pair requests the loop issues: up to the first one that is rejected
PairRequestsExpected ==
  LET thrown == {k \in 1..Len(pairs) : ~resp[ReqPair(k)].net \/ ~resp[ReqPair(k)].json}
      m      == IF thrown = {} THEN Len(pairs)
                ELSE CHOOSE k \in thrown : \A j \in thrown : k <= j
  IN  [k \in 1..m |-> RequestEvent(ReqPair(k))]

\* C15: the index proxy is all-or-nothing.  When one of the four pair
\* requests returns no data (no values field, an empty values list, a
\* transport error) the index task ends in failure, the proxy path writes no
\* file, and nothing is requested beyond the pair requests up to the rejected
\* one; a proxy record set is returned or written only when all four pairs
\* returned at least one point.
C15_AllOrNothing ==
  (Returned("dollarIndex") /\ ProxyTried) =>
    /\ (\E k \in 1..Len(pairs) : PairNoData(k)) =>
         /\ IsNull(results["dollarIndex"])
         /\ ProxySaves = 0
         /\ DxyPrimaryFails(resp[ReqDxy]) => files[DxyFile] = before[DxyFile]
    /\ RequestsAfterDxy = PairRequestsExpected
    /\ (ProxySaves > 0 \/ ~IsNull(results["dollarIndex"])) =>
         \A k \in 1..Len(pairs) : ~PairNoData(k)

\* the index task has ended in failure behind a pair without values, with the
\* file of the previous run untouched
C15_Witness ==
  /\ Returned("dollarIndex")
  /\ ProxyTried
  /\ \E k \in 1..Len(pairs) : resp[ReqPair(k)] = NoDataField
  /\ \E k \in 1..Len(pairs) : resp[ReqPair(k)] = GoodPair(k)
  /\ IsNull(results["dollarIndex"])
  /\ files[DxyFile] = StaleFiles[DxyFile]
  /\ Len(RequestsAfterDxy) = Len(pairs)

\* ------------------------------------------------------------------------
\* Claims about the persisted record sets

\* f holds a record set with a series
IsPriceSet(f)  == "history" \in DOMAIN files[f]
IsPolicySet(f) == "currentFedRate" \in DOMAIN files[f]
IsIndexSet(f)  == "currentDXY" \in DOMAIN files[f]

\* the last element of a non-empty array
Last(a) == a[Len(a)]

\* the current snapshot of the record set in f is the newest point of its series
SnapshotIsNewest(f) ==
  LET rec == files[f]
  IN  /\ IsPriceSet(f)  => rec.currentPrice = Last(rec.history).price
      /\ IsPolicySet(f) => /\ rec.currentFedRate = Last(rec.data).fedRate
                           /\ rec.currentRealYield = Last(rec.data).realYield
      /\ IsIndexSet(f)  => rec.currentDXY = Last(rec.data).dxy

\* C16: in every persisted record set (primary and fallback price, policy,
\* primary and proxy index) the current snapshot equals the value(s) of the
\* last element of the chronologically ordered series.
C16_SnapshotIsNewest ==
  \A f \in {GoldFile, FedFile, DxyFile} : SnapshotIsNewest(f)

\* the series of the record set in f (empty when f holds none)
SeriesIn(f) ==
  IF IsPriceSet(f) THEN files[f].history
  ELSE IF "data" \in DOMAIN files[f] THEN files[f].data
  ELSE <<>>

\* C17: every persisted series (primary and fallback price, policy, primary
\* and proxy index) has at most 180 points, whatever the number of points in
\* the provider responses.
C17_WindowCap ==
  \A f \in {GoldFile, FedFile, DxyFile} : Len(SeriesIn(f)) <= WindowSize

\* the complete pairs of two raw policy series: both reversed to
\* chronological order, paired index by index, pairs with "." on either side
\* (or without a real-yield observation) left out
CompletePairs(dffObs, ryObs) ==
  LET chron   == Reverse(dffObs)
      ryChron == Reverse(ryObs)
      mapped  == [i \in 1..Len(chron) |->
                    [date      |-> formatDate(chron[i].date, tz),
                     fedRate   |-> IF chron[i].value # Dot
                                     THEN toFixed(parseFloat(chron[i].value), 3, 2)
                                     ELSE Null,
                     realYield |-> IF i <= Len(ryChron) /\ ryChron[i].value # Dot
                                     THEN toFixed(parseFloat(ryChron[i].value), 3, 2)
                                     ELSE Null]]
      keep    == {i \in 1..Len(mapped) :
                    ~IsNull(mapped[i].fedRate) /\ ~IsNull(mapped[i].realYield)}
  IN  FilterAt(mapped, keep, 1)

\* C18: the policy task fails and writes no file whenever one of its two
\* responses carries an error field; when it succeeds, the persisted data are
\* exactly the last min(180, k) of the k complete pairs in order, and the
\* current rate and real yield are those of the last complete pair.
C18_PolicyWindow ==
  LET r1  == resp[ReqDff]
      r2  == resp[ReqRealYield]
      rec == results["fedPolicy"]
      cp  == CompletePairs(r1.data, r2.data)
  IN  Returned("fedPolicy") =>
        /\ (r1.error \/ r2.error) =>
             /\ IsNull(rec)
             /\ saveCalls[FedFile] = 0
             /\ files[FedFile] = before[FedFile]
        /\ ~IsNull(rec) =>
             /\ files[FedFile] = rec
             /\ rec.data = SliceTail(cp, WindowSize)
             /\ Len(rec.data) = Min(WindowSize, Len(cp))
             /\ rec.currentFedRate = Last(cp).fedRate
             /\ rec.currentRealYield = Last(cp).realYield

\* ------------------------------------------------------------------------
\* Claims about the events file

\* the events are the first `kept` articles of the body in order (all of
\* them when there are fewer), each headline cut to HeadlineMax characters
FirstArticlesKept(kept) ==
  LET r   == resp[ReqNews]
      rec == results["geopolitical"]
      n   == Len(r.data)
  IN  (Returned("geopolitical") /\ ~IsNull(rec)) =>
        /\ files[GeoFile] = rec
        /\ Len(rec.events) = Min(n, kept)
        /\ \A i \in 1..Len(rec.events) :
             LET title == r.data[i].title.chars
                 event == rec.events[i].event.chars
             IN  /\ Len(event) = Min(Len(title), HeadlineMax)
                 /\ \A j \in 1..Len(event) : event[j] = title[j]
                 /\ rec.events[i].url = r.data[i].url

\* C19 as stated: the persisted events are the first min(n, 20) of the n
\* articles of the response, in order, each headline cut to 120 characters.
C19_FirstTwenty == FirstArticlesKept(PageSize)

\* C19, amended: the persisted events are the first min(n, 15) of the n
\* articles of the response, in order, each headline cut to 120 characters.
C19_FirstFifteen == FirstArticlesKept(EventsKept)

\* a body of more articles than are kept, with a headline over the bound
\* among the kept ones, has been published
C19_Witness ==
  /\ Returned("geopolitical")
  /\ ~IsNull(results["geopolitical"])
  /\ Len(resp[ReqNews].data) > EventsKept
  /\ Len(results["geopolitical"].events) = EventsKept
  /\ \E i \in 1..EventsKept : Len(resp[ReqNews].data[i].title.chars) > HeadlineMax

\* ------------------------------------------------------------------------
\* Claims about the persisted dates

\* d has the form formatDate gives: month abbreviation, day, four-digit year
IsFormatted(d) ==
  /\ DOMAIN d = {"month", "day", "year"}
  /\ \E k \in 1..Len(months) : months[k] = d.month
  /\ d.day \in 1..31
  /\ d.year \in 1000..9999

\* the native dates in the response to q
NativeDates(q) ==
  {IF q.provider = "FRED" THEN resp[q].data[i].date ELSE resp[q].data[i].datetime :
     i \in 1..Len(resp[q].data)}

\* the requests whose bodies feed the series in f
FeedOf(f) ==
  CASE f = GoldFile -> {ReqGold, ReqGoldFallback}
    [] f = FedFile  -> {ReqDff}
    [] f = DxyFile  -> {ReqDxy, ReqPair(1)}

\* every date of the series in f is formatDate of a native date of its feed
SeriesDatesFormatted(f) ==
  \A i \in 1..Len(SeriesIn(f)) :
    LET d == SeriesIn(f)[i].date
    IN  /\ IsFormatted(d)
        /\ \E q \in FeedOf(f) : \E x \in NativeDates(q) : d = formatDate(x, tz)

\* the events file holds events
IsEventsSet == "events" \in DOMAIN files[GeoFile]

\* C20 as stated: every persisted date, in all four files, the events file
\* included, is produced by formatDate; none is in the provider's raw form.
C20_AllDatesFormatted ==
  /\ \A f \in {GoldFile, FedFile, DxyFile} : SeriesDatesFormatted(f)
  /\ IsEventsSet =>
       \A i \in 1..Len(files[GeoFile].events) :
         IsFormatted(files[GeoFile].events[i].date)

\* C20, amended: every date of the price, policy and index files is produced
\* by formatDate from the provider's native date; the dates of the events
\* file are the date part of publishedAt, in the provider's raw form.
C20_SeriesDatesFormatted ==
  /\ \A f \in {GoldFile, FedFile, DxyFile} : SeriesDatesFormatted(f)
  /\ IsEventsSet =>
       \A i \in 1..Len(files[GeoFile].events) :
         /\ files[GeoFile].events[i].date = resp[ReqNews].data[i].publishedAt.date
         /\ ~IsFormatted(files[GeoFile].events[i].date)

\* a run has written all four files, the index file by the primary path
C20_Witness ==
  /\ pc = "Done"
  /\ IsEventsSet
  /\ Len(files[GeoFile].events) > 0
  /\ \A f \in {GoldFile, FedFile, DxyFile} : Len(SeriesIn(f)) > 0
  /\ files[DxyFile].source = "Twelve Data API"

\* ------------------------------------------------------------------------
\* Termination, and requests that never return

\* environment e with the requests in h never answered
Hanging(e, h) == [e EXCEPT !.hung = h]

\* the base environments, and one request never answered while the others
\* are served or the primaries are down
LiveEnvironments ==
  BaseEnvironments
  \cup {Hanging(Environment(r, <<TRUE, TRUE>>, NoFault, 0, StaleFiles), {q}) :
          q \in Requests,
          r \in {AllGood, Override(AllGood, {ReqGold, ReqDxy}, AllDown)}}

InitLive == InitIn(LiveEnvironments)

\* a request that is never answered is open
HungOpen == inflight \cap hung # {}

\* main() can take a step: it has not ended its last run and does not await
\* a request that is never answered.  This is the state predicate
\* ENABLED <<Next>>_vars (NextOrStopped below has no state without successor).
CanStep == ~(pc = "Done" /\ run = 2) /\ ~HungOpen

\* Next, and stuttering allowed only where main() cannot take a step
NextOrStopped == Next \/ (~CanStep /\ UNCHANGED vars)

\* the event loop resumes main() whenever the promise it awaits settles: a
\* timer that has elapsed, a response or an error that has arrived.  This is
\* weak fairness of Next, WF_vars(Next), written out with CanStep in the
\* place of ENABLED <<Next>>_vars.
Fairness == []<>(~CanStep) \/ []<><<Next>>_vars

SpecLive == InitLive /\ [][Next]_vars /\ Fairness

\* the order in which main() runs the four tasks
SourceOrder == <<"goldPrice", "fedPolicy", "dollarIndex", "geopolitical">>

\* the position in SourceOrder of the task that issues q
TaskIndex(q) == CHOOSE k \in 1..Len(SourceOrder) : q \in RequestsOf(SourceOrder[k])

\* no task after those of the open unanswered requests has fetched or
\* written anything, and no exit decision has been taken
LaterUntouched ==
  /\ pc \notin {"Summarizing", "Done"}
  /\ exitCode = 0
  /\ \A q \in inflight \cap hung :
       /\ log[Len(log)] = RequestEvent(q)
       /\ \A k \in (TaskIndex(q) + 1)..Len(SourceOrder) :
            LET s == SourceOrder[k]
            IN  /\ IsNull(results[s])
                /\ saveCalls[FileOf(s)] = 0
                /\ files[FileOf(s)] = before[FileOf(s)]
                /\ \A i \in 1..Len(log) :
                     log[i].kind = "request" => RequestAt(i) \notin RequestsOf(s)

\* C21: when every request issued returns a response or an error and every
\* wait elapses, a run of main() reaches the summary and ends with an exit
\* decision; a request that never returns stays open for ever, and no later
\* task fetches or writes anything.
C21_Termination ==
  /\ (pc = "NotStarted") ~> ((pc = "Done" /\ exitCode \in {0, 1}) \/ HungOpen)
  /\ [](HungOpen => [](HungOpen /\ LaterUntouched))

\* the real-yield request is never answered: the price file has been
\* written, and the run stays in the policy task
C21_Witness ==
  /\ pc = "fed_realyield_wait"
  /\ ReqRealYield \in hung
  /\ HungOpen
  /\ files[GoldFile] # before[GoldFile]
  /\ LaterUntouched

\* ------------------------------------------------------------------------
\* Claims about the writes of a run

\* the task of source s has been entered in this run
Entered(s) ==
  \E k \in 1..Len(SourceOrder) :
    /\ SourceOrder[k] = s
    /\ \E j \in k..Len(SourceOrder) :
         Phase(pc) = Phases[j + 1] \/ Phase(pc) \in {"Summarizing", "Done"}

\* writeFileSync has completed on f in this run, that many times
WritesDone(f) == IF writeFault[f] = "none" THEN saveCalls[f] ELSE 0

pipeline == <<pc, run, resp, keys, writeFault, tz, clock, files, before,
              results, exitCode, log, inflight, saveCalls, trace, pairData,
              pairIdx, first, hung>>

\* the API data state that displays file f
StateOf ==
  [f \in FileNames |->
     CASE f = GoldFile -> "goldData"
       [] f = FedFile  -> "fedData"
       [] f = DxyFile  -> "dxyData"
       [] f = GeoFile  -> "geoEvents"]

\* res.json() of the response for a file: a missing file is answered by a
\* page that is not JSON, a truncated file is not JSON either
ParsesAsJson(body) == body \notin {Absent, Truncated}

\* JSON.stringify and JSON.parse of a list of manual records: the records
\* hold strings and finite numbers only, which JSON writes and reads back
\* unchanged
JSONstringify(list) == [json |-> list]
JSONparse(item) == item.json

\* the second effect: a saved item replaces the empty list
Saved(key) ==
  IF localStorage[key] = NoItem THEN <<>> ELSE JSONparse(localStorage[key])

\* mounting App: both effects run, fetchData issues its four fetches at
\* once and waits for them together
Mount ==
  /\ page' = [InitialPage EXCEPT !.mounted = TRUE,
                                 !.centralBankData = Saved("centralBankData"),
                                 !.manualEvents = Saved("manualEvents")]
  /\ loads' = [f \in FileNames |-> Pending]
  /\ UNCHANGED <<localStorage, storageFull>>
  /\ UNCHANGED pipeline

pageLoad ==
  /\ ~page.mounted
  /\ Mount

\* reloading the page: the component state is lost, App mounts again
pageReload ==
  /\ page.mounted
  /\ Mount

\* one of the four fetch(...).then(res => res.json()) settles: with the
\* parsed file as it is at that moment, or with an error
fetchSettles(f) ==
  /\ loads[f].state = "pending"
  /\ \E net \in BOOLEAN :
       loads' = [loads EXCEPT ![f] =
                   IF net /\ ParsesAsJson(files[f])
                     THEN Fulfilled(files[f])
                     ELSE Rejected]
  /\ UNCHANGED <<page, localStorage, storageFull>>
  /\ UNCHANGED pipeline

\* new Date(gold.lastUpdated)
DateOf(gold) ==
  IF "lastUpdated" \in DOMAIN gold
    THEN [time |-> gold.lastUpdated]
    ELSE [invalid |-> TRUE]

\* Promise.all fulfilled: the rest of the try block
loadFulfilled ==
  /\ page.mounted
  /\ page.loading
  /\ \A f \in FileNames : loads[f].state = "fulfilled"
  /\ page' = [page EXCEPT !.goldData = loads[GoldFile].value,
                          !.fedData = loads[FedFile].value,
                          !.dxyData = loads[DxyFile].value,
                          !.geoEvents = loads[GeoFile].value,
                          !.lastUpdated = DateOf(loads[GoldFile].value),
                          !.loading = FALSE]
  /\ UNCHANGED <<loads, localStorage, storageFull>>
  /\ UNCHANGED pipeline

\* faulty variant: every state is set as soon as its own fetch succeeded
loadRejectedKeepingOthers ==
  /\ page.mounted
  /\ page.loading
  /\ \E f \in FileNames : loads[f].state = "rejected"
  /\ page' = [page EXCEPT
       !.goldData = loads[GoldFile].value,
       !.fedData = loads[FedFile].value,
       !.dxyData = loads[DxyFile].value,
       !.geoEvents = loads[GeoFile].value,
       !.loading = FALSE]
  /\ UNCHANGED <<loads, localStorage, storageFull>>
  /\ UNCHANGED pipeline

\* Promise.all rejected with the first failure: the catch block
loadRejected ==
  /\ page.mounted
  /\ page.loading
  /\ \E f \in FileNames : loads[f].state = "rejected"
  /\ page' = [page EXCEPT !.loading = FALSE]
  /\ UNCHANGED <<loads, localStorage, storageFull>>
  /\ UNCHANGED pipeline

\* a step of the load
LoadStep ==
  \/ \E f \in FileNames : fetchSettles(f)
  \/ loadFulfilled
  \/ loadRejected

NextPage ==
  \/ Next
  \/ pageLoad
  \/ LoadStep

\* the environments of the load: those of the base runs, a first run
\* without a news key, and a first run whose index file is cut short
PageEnvironments ==
  BaseEnvironments
    \cup {Environment(AllGood, <<FALSE, FALSE>>, NoFault, 0, NoFiles),
          Environment(AllGood, <<TRUE, TRUE>>,
                      [NoFault EXCEPT ![DxyFile] = "ENOSPC"], 0, NoFiles)}

InitPage == InitIn(PageEnvironments)

\* the browser settles every fetch and runs every continuation
PageFairness == WF_vars(LoadStep)

SpecPage == InitPage /\ [][NextPage]_vars /\ PageFairness

\* ------------------------------------------------------------------------
\* C23: the initial load is all-or-nothing

AllNull == \A f \in FileNames : page[StateOf[f]] = Null
AllSet  == \A f \in FileNames : page[StateOf[f]] # Null

SomeRejected == \E f \in FileNames : loads[f].state = "rejected"

\* the four states are all null or all set; they are null while the page
\* is loading and whenever a fetch failed; when set, each holds the parsed
\* file its own fetch returned
LoadIsWhole ==
  /\ AllNull \/ AllSet
  /\ page.loading => AllNull
  /\ SomeRejected => AllNull
  /\ (~page.loading /\ AllNull) => SomeRejected
  /\ AllSet => /\ \A f \in FileNames : loads[f] = Fulfilled(page[StateOf[f]])
               /\ page.lastUpdated = DateOf(page.goldData)

\* C23: the initial load of the dashboard is all-or-nothing: the four API
\* data states are all set from their files or all left null; when one of
\* the four fetches fails or does not parse, none of the other three is
\* set; and in both cases the loading flag becomes false in the end.
C23_AllOrNothing ==
  /\ []LoadIsWhole
  /\ page.mounted ~> ~page.loading

\* a first run without a news key wrote three files and no events file;
\* the page fetched the three, the events fetch failed, nothing is shown
C23_Witness ==
  /\ pc = "Done"
  /\ ~keys[run]
  /\ files[GeoFile] = Absent
  /\ \A f \in FileNames \ {GeoFile} :
       /\ saveCalls[f] = 1
       /\ loads[f] = Fulfilled(files[f])
  /\ loads[GeoFile].state = "rejected"
  /\ ~page.loading
  /\ AllNull

\* ------------------------------------------------------------------------
\* The dashboard (App.jsx): the manual records

\* the longest list of manual records
MaxRecords == 2

\* the value of an empty <input type="number">
EmptyInput == Str(<<>>)

\* parseFloat(input) || 0: the NaN of an empty input and 0 both give 0
parseFloatOrZero(input) ==
  IF input = EmptyInput THEN 0 ELSE parseFloat(input)

\* what the admin types into the central-bank form
CBForms ==
  {[quarter |-> "Q1 2024", china |-> Num(12500), russia |-> EmptyInput,
    india |-> Num(0), turkey |-> Num(-1000), other |-> EmptyInput],
   [quarter |-> "Q2 2024", china |-> EmptyInput, russia |-> Num(3200),
    india |-> Num(7), turkey |-> EmptyInput, other |-> Num(40000)]}

\* what the admin types into the event form, and Date.now() at the submit
EventForms ==
  {[date |-> "2024-03-01", event |-> "Sanctions", severity |-> "medium",
    impact |-> "neutral"],
   [date |-> "2024-02-11", event |-> "Ceasefire", severity |-> "low",
    impact |-> "negative"]}
Timestamps == {1709251200, 1709251201}

\* localStorage.setItem(key, value); when the storage is full it throws
\* and the handler ends there, after its setState
setItem(key, value) ==
  localStorage' = IF storageFull THEN localStorage
                  ELSE [localStorage EXCEPT ![key] = value]

\* faulty variant: the new quarter replaces the list
handleAddCBDataReplacing(cbForm) ==
  LET updated == <<[quarter |-> cbForm.quarter, data |-> <<>>]>>
  IN  /\ page.mounted
      /\ ~page.loading
      /\ Len(page.centralBankData) < MaxRecords
      /\ page' = [page EXCEPT !.centralBankData = updated]
      /\ setItem("centralBankData", JSONstringify(updated))
      /\ UNCHANGED <<loads, storageFull>>
      /\ UNCHANGED pipeline

handleAddCBData(cbForm) ==
  LET newData ==
        [quarter |-> cbForm.quarter,
         data |-> <<[country |-> "China",
                     tonnes |-> parseFloatOrZero(cbForm.china)],
                    [country |-> "Russia",
                     tonnes |-> parseFloatOrZero(cbForm.russia)],
                    [country |-> "India",
                     tonnes |-> parseFloatOrZero(cbForm.india)],
                    [country |-> "Turkey",
                     tonnes |-> parseFloatOrZero(cbForm.turkey)],
                    [country |-> "Other",
                     tonnes |-> parseFloatOrZero(cbForm.other)]>>]
      updated == Append(page.centralBankData, newData)
  IN  /\ page.mounted
      /\ ~page.loading
      /\ Len(page.centralBankData) < MaxRecords
      /\ page' = [page EXCEPT !.centralBankData = updated]
      /\ setItem("centralBankData", JSONstringify(updated))
      /\ UNCHANGED <<loads, storageFull>>
      /\ UNCHANGED pipeline

handleAddEvent(eventForm, now) ==
  LET newEvent == [date |-> eventForm.date, event |-> eventForm.event,
                   severity |-> eventForm.severity,
                   impact |-> eventForm.impact, id |-> now]
      updated == <<newEvent>> \o page.manualEvents
  IN  /\ page.mounted
      /\ ~page.loading
      /\ Len(page.manualEvents) < MaxRecords
      /\ page' = [page EXCEPT !.manualEvents = updated]
      /\ setItem("manualEvents", JSONstringify(updated))
      /\ UNCHANGED <<loads, storageFull>>
      /\ UNCHANGED pipeline

\* "Clear CB Data", the confirm answered with OK
clearCBData ==
  /\ page.mounted
  /\ ~page.loading
  /\ page' = [page EXCEPT !.centralBankData = <<>>]
  /\ localStorage' = [localStorage EXCEPT !["centralBankData"] = NoItem]
  /\ UNCHANGED <<loads, storageFull>>
  /\ UNCHANGED pipeline

\* "Clear Events", the confirm answered with OK
clearEvents ==
  /\ page.mounted
  /\ ~page.loading
  /\ page' = [page EXCEPT !.manualEvents = <<>>]
  /\ localStorage' = [localStorage EXCEPT !["manualEvents"] = NoItem]
  /\ UNCHANGED <<loads, storageFull>>
  /\ UNCHANGED pipeline

NextManual ==
  \/ pageLoad
  \/ pageReload
  \/ LoadStep
  \/ \E cbForm \in CBForms : handleAddCBData(cbForm)
  \/ \E eventForm \in EventForms, now \in Timestamps :
       handleAddEvent(eventForm, now)
  \/ clearCBData
  \/ clearEvents

\* a browser whose storage takes the writes, and one whose storage is full
ManualEnvironments ==
  {[Environment(AllGood, <<TRUE, TRUE>>, NoFault, 0, StaleFiles)
      EXCEPT !.storageFull = full] : full \in BOOLEAN}

InitManual == InitIn(ManualEnvironments)

SpecManual == InitManual /\ [][NextManual]_vars

\* ------------------------------------------------------------------------
\* C24: the manual records and their copy in localStorage

\* the list in memory is the list saved under the key, and a list that is
\* empty has no item
StorageMatches ==
  \A key \in StorageKeys :
    /\ Saved(key) = page[key]
    /\ (localStorage[key] = NoItem) <=> (page[key] = <<>>)

\* a step that changes the list either empties it, removing the item, or
\* puts one record after the earlier ones
AppendsOrClears(key) ==
  (page.mounted /\ page'[key] # page[key]) =>
    \/ page'[key] = <<>> /\ localStorage'[key] = NoItem
    \/ /\ Len(page'[key]) = Len(page[key]) + 1
       /\ SubSeq(page'[key], 1, Len(page[key])) = page[key]

\* a step that changes the list either empties it, removing the item, or
\* puts one record before the earlier ones
PrependsOrClears(key) ==
  (page.mounted /\ page'[key] # page[key]) =>
    \/ page'[key] = <<>> /\ localStorage'[key] = NoItem
    \/ /\ Len(page'[key]) = Len(page[key]) + 1
       /\ Tail(page'[key]) = page[key]

\* a step that changes a manual list or its saved copy
ManualChange ==
  \/ localStorage' # localStorage
  \/ \E key \in StorageKeys : page'[key] # page[key]

====
